---- MODULE Spec2Model ----
(***************************************************************************)
(* State-machine model of the conversational email assistant:              *)
(*   - ConversationContext / ConversationStateManager                       *)
(*     (src/src/assistant/conversation_state.py)                            *)
(*   - HybridIntentClassifier (src/src/assistant/intent_classifier.py)      *)
(*   - ConversationalEmailAgent                                             *)
(*     (src/src/assistant/conversational_agent.py), with the fields of its  *)
(*     EmailLLMProcessor and the replies of its response generator          *)
(* Confidences are floats in the source; the model keeps them in           *)
(* hundredths (0.85 is 85).  Every sum base + delta that the registered    *)
(* context adjustments can produce is exact in hundredths in IEEE doubles  *)
(* as well, so the comparisons of the source are preserved.                *)
(***************************************************************************)
EXTENDS Integers, Sequences, FiniteSets, TLC

VARIABLES
    current_state,      \* ConversationContext.current_state
    last_intent,        \* ConversationContext.last_intent
    email_content,      \* ConversationContext.email_content
    extracted_info,     \* ConversationContext.extracted_info
    current_draft,      \* ConversationContext.current_draft
    draft_history,      \* ConversationContext.draft_history
    email_sessions,     \* ConversationContext.email_sessions
    conversation_history, \* ConversationContext.conversation_history
    last_call,          \* the last public call: its arguments and what it returned
    workflow,           \* the transition_state calls made so far on a fresh manager,
                        \* kept while they follow the scripted workflow
    agent,              \* ConversationalEmailAgent: its counters, the fields of its
                        \* EmailLLMProcessor, context.currently_viewed_session
    turns               \* the process_user_input calls made so far: scripted, free

ctx_vars == <<current_state, last_intent, email_content, extracted_info,
              current_draft, draft_history, email_sessions, conversation_history>>
vars == <<current_state, last_intent, email_content, extracted_info,
          current_draft, draft_history, email_sessions, conversation_history,
          last_call, workflow, agent, turns>>

\* the orchestrating agent, which only process_user_input and
\* reset_conversation touch
agent_vars == <<agent, turns>>

\* Python's None
None == "None"

-----------------------------------------------------------------------------
(* Bounds of the model *)

\* messages kept in conversation_history
MaxHistory == 2

\* archived email sessions kept in email_sessions
MaxSessions == 1

-----------------------------------------------------------------------------
(* conversation_state.py: the enumerations *)

ConversationState ==
    {"GREETING", "WAITING_FOR_EMAIL", "EMAIL_LOADED", "INFO_EXTRACTED",
     "DRAFT_CREATED", "DRAFT_REFINED", "READY_TO_SAVE",
     "CONVERSATION_COMPLETE", "ERROR_RECOVERY"}

\* the closed set of intents the classifier is asked to choose from
Intents ==
    {"LOAD_EMAIL", "DRAFT_REPLY", "EXTRACT_INFO", "REFINE_DRAFT", "SAVE_DRAFT",
     "GENERAL_HELP", "CONTINUE_WORKFLOW", "DECLINE_OFFER",
     "VIEW_SESSION_HISTORY", "VIEW_SPECIFIC_SESSION", "CLARIFICATION_NEEDED"}

\* transition_state takes any str: one string outside the enumeration stands
\* for all of them
IntentArgs == Intents \cup {"UNKNOWN_INTENT"}

\* ConversationStateManager._setup_state_transitions: state -> (intent -> state)
transitions ==
    [s \in ConversationState |->
       CASE s = "GREETING" ->
              ("LOAD_EMAIL" :> "EMAIL_LOADED") @@
              ("EXTRACT_INFO" :> "INFO_EXTRACTED") @@
              ("GENERAL_HELP" :> "GREETING") @@
              ("CLARIFICATION_NEEDED" :> "GREETING") @@
              ("VIEW_SESSION_HISTORY" :> "GREETING") @@
              ("VIEW_SPECIFIC_SESSION" :> "GREETING")
         [] s = "WAITING_FOR_EMAIL" ->
              ("LOAD_EMAIL" :> "EMAIL_LOADED") @@
              ("GENERAL_HELP" :> "WAITING_FOR_EMAIL") @@
              ("VIEW_SESSION_HISTORY" :> "WAITING_FOR_EMAIL") @@
              ("VIEW_SPECIFIC_SESSION" :> "WAITING_FOR_EMAIL")
         [] s = "EMAIL_LOADED" ->
              ("EXTRACT_INFO" :> "INFO_EXTRACTED") @@
              ("DRAFT_REPLY" :> "DRAFT_CREATED") @@
              ("CONTINUE_WORKFLOW" :> "INFO_EXTRACTED") @@
              ("DECLINE_OFFER" :> "EMAIL_LOADED") @@
              ("LOAD_EMAIL" :> "EMAIL_LOADED") @@
              ("VIEW_SESSION_HISTORY" :> "EMAIL_LOADED") @@
              ("VIEW_SPECIFIC_SESSION" :> "EMAIL_LOADED")
         [] s = "INFO_EXTRACTED" ->
              ("DRAFT_REPLY" :> "DRAFT_CREATED") @@
              ("CONTINUE_WORKFLOW" :> "DRAFT_CREATED") @@
              ("DECLINE_OFFER" :> "INFO_EXTRACTED") @@
              ("EXTRACT_INFO" :> "INFO_EXTRACTED") @@
              ("LOAD_EMAIL" :> "EMAIL_LOADED") @@
              ("CLARIFICATION_NEEDED" :> "INFO_EXTRACTED") @@
              ("VIEW_SESSION_HISTORY" :> "INFO_EXTRACTED") @@
              ("VIEW_SPECIFIC_SESSION" :> "INFO_EXTRACTED")
         [] s = "DRAFT_CREATED" ->
              ("REFINE_DRAFT" :> "DRAFT_REFINED") @@
              ("SAVE_DRAFT" :> "READY_TO_SAVE") @@
              ("CONTINUE_WORKFLOW" :> "READY_TO_SAVE") @@
              ("DECLINE_OFFER" :> "DRAFT_CREATED") @@
              ("DRAFT_REPLY" :> "DRAFT_CREATED") @@
              ("EXTRACT_INFO" :> "INFO_EXTRACTED") @@
              ("LOAD_EMAIL" :> "EMAIL_LOADED") @@
              ("VIEW_SESSION_HISTORY" :> "DRAFT_CREATED") @@
              ("VIEW_SPECIFIC_SESSION" :> "DRAFT_CREATED")
         [] s = "DRAFT_REFINED" ->
              ("REFINE_DRAFT" :> "DRAFT_REFINED") @@
              ("SAVE_DRAFT" :> "READY_TO_SAVE") @@
              ("CONTINUE_WORKFLOW" :> "READY_TO_SAVE") @@
              ("DECLINE_OFFER" :> "DRAFT_REFINED") @@
              ("DRAFT_REPLY" :> "DRAFT_CREATED") @@
              ("EXTRACT_INFO" :> "INFO_EXTRACTED") @@
              ("LOAD_EMAIL" :> "EMAIL_LOADED") @@
              ("VIEW_SESSION_HISTORY" :> "DRAFT_REFINED") @@
              ("VIEW_SPECIFIC_SESSION" :> "DRAFT_REFINED")
         [] s = "READY_TO_SAVE" ->
              ("SAVE_DRAFT" :> "CONVERSATION_COMPLETE") @@
              ("REFINE_DRAFT" :> "DRAFT_REFINED") @@
              ("DRAFT_REPLY" :> "DRAFT_CREATED") @@
              ("LOAD_EMAIL" :> "EMAIL_LOADED") @@
              ("EXTRACT_INFO" :> "INFO_EXTRACTED") @@
              ("VIEW_SESSION_HISTORY" :> "READY_TO_SAVE") @@
              ("VIEW_SPECIFIC_SESSION" :> "READY_TO_SAVE")
         [] s = "CONVERSATION_COMPLETE" ->
              ("LOAD_EMAIL" :> "EMAIL_LOADED") @@
              ("GENERAL_HELP" :> "GREETING") @@
              ("VIEW_SESSION_HISTORY" :> "CONVERSATION_COMPLETE") @@
              ("VIEW_SPECIFIC_SESSION" :> "CONVERSATION_COMPLETE")
         [] s = "ERROR_RECOVERY" ->
              ("LOAD_EMAIL" :> "EMAIL_LOADED") @@
              ("DRAFT_REPLY" :> "DRAFT_CREATED") @@
              ("SAVE_DRAFT" :> "CONVERSATION_COMPLETE") @@
              ("EXTRACT_INFO" :> "INFO_EXTRACTED") @@
              ("REFINE_DRAFT" :> "DRAFT_REFINED") @@
              ("GENERAL_HELP" :> "GREETING") @@
              ("CLARIFICATION_NEEDED" :> "ERROR_RECOVERY") @@
              ("VIEW_SESSION_HISTORY" :> "ERROR_RECOVERY") @@
              ("VIEW_SPECIFIC_SESSION" :> "ERROR_RECOVERY")]

\* the table without one entry
Without(table, intent) == [i \in DOMAIN table \ {intent} |-> table[i]]

\* Variants of the table lookup with one entry wrong.
\* READY_TO_SAVE: a second save stays in READY_TO_SAVE
valid_transitions_SaveLoops(state) ==
    IF state = "READY_TO_SAVE"
    THEN ("SAVE_DRAFT" :> "READY_TO_SAVE") @@ transitions[state]
    ELSE transitions[state]
\* WAITING_FOR_EMAIL: the LOAD_EMAIL entry is missing
valid_transitions_WaitingStuck(state) ==
    IF state = "WAITING_FOR_EMAIL"
    THEN Without(transitions[state], "LOAD_EMAIL")
    ELSE transitions[state]
\* ERROR_RECOVERY: SAVE_DRAFT goes to READY_TO_SAVE as it does from the draft states
valid_transitions_RecoverySaveReady(state) ==
    IF state = "ERROR_RECOVERY"
    THEN ("SAVE_DRAFT" :> "READY_TO_SAVE") @@ transitions[state]
    ELSE transitions[state]
\* CONVERSATION_COMPLETE: the LOAD_EMAIL entry is missing
valid_transitions_NoReloadWhenComplete(state) ==
    IF state = "CONVERSATION_COMPLETE"
    THEN Without(transitions[state], "LOAD_EMAIL")
    ELSE transitions[state]

\* DRAFT_CREATED: declining the offer starts over
valid_transitions_DeclineRestarts(state) ==
    IF state = "DRAFT_CREATED"
    THEN ("DECLINE_OFFER" :> "GREETING") @@ transitions[state]
    ELSE transitions[state]

\* self.transitions.get(current_state, {})
valid_transitions(state) == transitions[state]

-----------------------------------------------------------------------------
(* conversation_state.py: ConversationContext *)

\* values the orchestrator stores in the workflow fields
EmailValues == {"email_a"}
InfoValues == {"info_a"}
DraftValues == {"draft_a"}

\* Python truthiness of an Optional[str] field: None and "" are falsy
Truthy(v) == v # None /\ v # ""

RECURSIVE SumDrafts(_)
\* sum(len(session.drafts) for session in self.email_sessions)
SumDrafts(sessions) ==
    IF sessions = <<>> THEN 0
    ELSE Len(Head(sessions).drafts) + SumDrafts(Tail(sessions))

\* draft_history[previous_draft_count:]
SliceFrom(seq, n) ==
    IF n >= Len(seq) THEN <<>> ELSE SubSeq(seq, n + 1, Len(seq))

\* Variant: the snapshot is numbered by the sessions before it (from 0)
ArchivedSessions_ZeroBased ==
    IF Truthy(email_content)
    THEN Append(email_sessions,
                [email_content  |-> email_content,
                 extracted_info |-> extracted_info,
                 drafts         |-> SliceFrom(draft_history, SumDrafts(email_sessions)),
                 current_draft  |-> current_draft,
                 email_id       |-> Len(email_sessions)])
    ELSE email_sessions

\* ConversationContext.archive_current_email_session: the value of
\* email_sessions after the call
ArchivedSessions ==
    IF Truthy(email_content)
    THEN Append(email_sessions,
                [email_content  |-> email_content,
                 extracted_info |-> extracted_info,
                 drafts         |-> SliceFrom(draft_history, SumDrafts(email_sessions)),
                 current_draft  |-> current_draft,
                 email_id       |-> Len(email_sessions) + 1])
    ELSE email_sessions

\* the model keeps at most MaxSessions archived sessions
ArchiveFits == ~Truthy(email_content) \/ Len(email_sessions) < MaxSessions

-----------------------------------------------------------------------------
(* The scripted workflow of test_complex_workflow_transitions, with and     *)
(* without the EXTRACT_INFO step                                            *)

FullWorkflow ==
    <<"LOAD_EMAIL", "DRAFT_REPLY", "REFINE_DRAFT", "SAVE_DRAFT", "SAVE_DRAFT">>
FullWorkflowWithExtract ==
    <<"LOAD_EMAIL", "EXTRACT_INFO", "DRAFT_REPLY", "REFINE_DRAFT", "SAVE_DRAFT",
      "SAVE_DRAFT">>

IsPrefix(p, s) == Len(p) <= Len(s) /\ SubSeq(s, 1, Len(p)) = p

\* the value that marks a call sequence that left the script
OffScript == <<"-">>

\* the script observer after one more transition_state(intent, success)
FollowScript(w, intent, success) ==
    IF /\ w # OffScript
       /\ success
       /\ \/ IsPrefix(Append(w, intent), FullWorkflow)
          \/ IsPrefix(Append(w, intent), FullWorkflowWithExtract)
    THEN Append(w, intent)
    ELSE OffScript

-----------------------------------------------------------------------------
(* conversation_state.py: ConversationStateManager *)

\* Variant: the table is consulted before the success flag
NextState_TableFirst(state, intent, success) ==
    IF intent \in DOMAIN valid_transitions(state)
    THEN valid_transitions(state)[intent]
    ELSE IF ~success THEN "ERROR_RECOVERY" ELSE state

\* Variant: last_intent is assigned outside the membership test
NextLastIntent_Always(state, last, intent, success) ==
    IF ~success THEN last ELSE intent

\* transition_state: the state the call leaves in context.current_state
NextState(state, intent, success) ==
    IF ~success THEN "ERROR_RECOVERY"
    ELSE IF intent \in DOMAIN valid_transitions(state)
         THEN valid_transitions(state)[intent]
         ELSE state

\* transition_state: the value the call leaves in context.last_intent
NextLastIntent(state, last, intent, success) ==
    IF ~success THEN last
    ELSE IF intent \in DOMAIN valid_transitions(state)
         THEN intent
         ELSE last

\* transition_state: whether the call raises (it never indexes the table
\* without testing membership first)
TransitionRaises(state, intent, success) == FALSE

\* ConversationalEmailAgent.__init__: the counters at 0, the processor without
\* text, key information or draft, nothing viewed.  active_drafts is not a
\* field of the program: it lists the drafts made since
\* context.email_content was last assigned
FreshAgent ==
    [conversation_count |-> 0, successful_operations |-> 0,
     failed_operations |-> 0, text |-> None, key_info |-> None,
     last_draft |-> None, currently_viewed_session |-> None,
     active_drafts |-> <<>>]

\* no process_user_input call was made
NoTurns == [script |-> 0, free |-> 0]

Init ==
    /\ current_state = "GREETING"
    /\ last_intent = None
    /\ email_content = None
    /\ extracted_info = None
    /\ current_draft = None
    /\ draft_history = <<>>
    /\ email_sessions = <<>>
    /\ conversation_history = <<>>
    /\ last_call = [op |-> "init"]
    /\ workflow = <<>>
    /\ agent = FreshAgent
    /\ turns = NoTurns

\* ConversationStateManager.transition_state(intent, success)
TransitionState(intent, success) ==
    /\ current_state' = NextState(current_state, intent, success)
    /\ last_intent' = NextLastIntent(current_state, last_intent, intent, success)
    /\ last_call' = [op |-> "transition_state", intent |-> intent,
                     success |-> success,
                     from_state |-> current_state,
                     from_last_intent |-> last_intent,
                     raised |-> TransitionRaises(current_state, intent, success),
                     returned |-> NextState(current_state, intent, success)]
    /\ workflow' = FollowScript(workflow, intent, success)
    /\ UNCHANGED agent_vars
    /\ UNCHANGED <<email_content, extracted_info, current_draft, draft_history,
                   email_sessions, conversation_history>>

\* ConversationStateManager.update_context(key=value): sets an attribute the
\* context has and silently ignores any other key
UpdateContext(key, value) ==
    /\ email_content' = IF key = "email_content" THEN value ELSE email_content
    /\ extracted_info' = IF key = "extracted_info" THEN value ELSE extracted_info
    /\ current_draft' = IF key = "current_draft" THEN value ELSE current_draft
    /\ current_state' = IF key = "current_state" THEN value ELSE current_state
    /\ last_call' = [op |-> "update_context", key |-> key]
    /\ workflow' = OffScript
    /\ UNCHANGED agent_vars
    /\ UNCHANGED <<last_intent, draft_history, email_sessions,
                   conversation_history>>

\* Variant: archiving also starts waiting for the next email
ArchiveCurrentEmailSession_AndWait ==
    /\ ArchiveFits
    /\ email_sessions' = ArchivedSessions
    /\ current_state' = "WAITING_FOR_EMAIL"
    /\ last_call' = [op |-> "archive_current_email_session"]
    /\ workflow' = OffScript
    /\ UNCHANGED agent_vars
    /\ UNCHANGED <<last_intent, email_content, extracted_info,
                   current_draft, draft_history, conversation_history>>

\* ConversationContext.archive_current_email_session()
ArchiveCurrentEmailSession ==
    /\ ArchiveFits
    /\ email_sessions' = ArchivedSessions
    /\ last_call' = [op |-> "archive_current_email_session"]
    /\ workflow' = OffScript
    /\ UNCHANGED agent_vars
    /\ UNCHANGED <<current_state, last_intent, email_content, extracted_info,
                   current_draft, draft_history, conversation_history>>

\* ConversationContext.reset_email_context(): archive, then clear the
\* workflow fields and wait for the next email
ResetEmailContext ==
    /\ ArchiveFits
    /\ email_sessions' = ArchivedSessions
    /\ email_content' = None
    /\ extracted_info' = None
    /\ current_draft' = None
    /\ draft_history' = <<>>
    /\ current_state' = "WAITING_FOR_EMAIL"
    /\ last_call' = [op |-> "reset_email_context"]
    /\ workflow' = OffScript
    /\ UNCHANGED agent_vars
    /\ UNCHANGED <<last_intent, conversation_history>>

\* what the callers of add_to_history pass
Roles == {"user", "assistant"}
Contents == {"hello"}

\* ConversationContext.add_to_history(role, content); the timestamp of the
\* entry is not kept
AddToHistory(role, content) ==
    /\ Len(conversation_history) < MaxHistory
    /\ conversation_history' =
           Append(conversation_history, [role |-> role, content |-> content])
    /\ last_call' = [op |-> "add_to_history"]
    /\ workflow' = OffScript
    /\ UNCHANGED agent_vars
    /\ UNCHANGED <<current_state, last_intent, email_content, extracted_info,
                   current_draft, draft_history, email_sessions>>

\* Python's seq[-limit:]: the last `limit` entries, and the whole list when
\* limit is 0 (seq[-0:] is seq[0:])
LastEntries(seq, limit) ==
    IF limit = 0 \/ limit >= Len(seq) THEN seq
    ELSE SubSeq(seq, Len(seq) - limit + 1, Len(seq))

\* the limits get_recent_history is called with: 5 is its default, 3 is what
\* the classification prompt asks for
Limits == {0, 1, 3, 5}

\* ConversationContext.get_recent_history(limit)
GetRecentHistory(limit) ==
    /\ last_call' = [op |-> "get_recent_history", limit |-> limit,
                     returned |-> LastEntries(conversation_history, limit)]
    /\ workflow' = OffScript
    /\ UNCHANGED agent_vars
    /\ UNCHANGED ctx_vars

\* the session_id values of the summaries and of get_session_by_id:
\* <<"email", n>> is f"email_{n}", <<"current">> is 'current'
SessionId(n) == <<"email", n>>
CurrentId == <<"current">>

\* one entry of get_all_session_summaries
Summary(session_id, info, draft_count, draft, is_current) ==
    [session_id |-> session_id, has_extracted_info |-> info # None,
     draft_count |-> draft_count, has_current_draft |-> draft # None,
     is_current |-> is_current]

\* ConversationContext.get_all_session_summaries(): the archived sessions in
\* order, then the current one when an email is loaded
AllSessionSummaries ==
    [i \in DOMAIN email_sessions |->
        Summary(SessionId(email_sessions[i].email_id),
                email_sessions[i].extracted_info,
                Len(email_sessions[i].drafts),
                email_sessions[i].current_draft, FALSE)]
    \o (IF Truthy(email_content)
        THEN <<Summary(CurrentId, extracted_info,
                       Len(draft_history) - SumDrafts(email_sessions),
                       current_draft, TRUE)>>
        ELSE <<>>)

GetAllSessionSummaries ==
    /\ last_call' = [op |-> "get_all_session_summaries",
                     returned |-> AllSessionSummaries]
    /\ workflow' = OffScript
    /\ UNCHANGED agent_vars
    /\ UNCHANGED ctx_vars

\* ConversationContext.get_session_by_id(session_id): the sessions found (one
\* or none; none is Python's None)
SessionById(session_id) ==
    IF session_id = CurrentId
    THEN IF Truthy(email_content)
         THEN {[email_content  |-> email_content,
                extracted_info |-> extracted_info,
                drafts         |-> draft_history,
                current_draft  |-> current_draft,
                email_id       |-> 0]}
         ELSE {}
    ELSE IF \E i \in DOMAIN email_sessions :
               SessionId(email_sessions[i].email_id) = session_id
    THEN {email_sessions[
            CHOOSE i \in DOMAIN email_sessions :
               /\ SessionId(email_sessions[i].email_id) = session_id
               /\ \A j \in DOMAIN email_sessions :
                     SessionId(email_sessions[j].email_id) = session_id => i <= j]}
    ELSE {}

\* the ids asked for
SessionIds == {CurrentId, SessionId(1), SessionId(2)}

GetSessionById(session_id) ==
    /\ last_call' = [op |-> "get_session_by_id", session_id |-> session_id,
                     returned |-> SessionById(session_id)]
    /\ workflow' = OffScript
    /\ UNCHANGED agent_vars
    /\ UNCHANGED ctx_vars

\* ConversationStateManager.can_transition(intent)
CanTransition(intent) ==
    /\ last_call' = [op |-> "can_transition", intent |-> intent,
                     returned |-> intent \in DOMAIN valid_transitions(current_state)]
    /\ workflow' = OffScript
    /\ UNCHANGED agent_vars
    /\ UNCHANGED ctx_vars

\* ConversationStateManager.get_valid_intents(): the keys of the state's row
GetValidIntents ==
    /\ last_call' = [op |-> "get_valid_intents",
                     returned |-> DOMAIN valid_transitions(current_state)]
    /\ workflow' = OffScript
    /\ UNCHANGED agent_vars
    /\ UNCHANGED ctx_vars

\* the keyword arguments the orchestrator passes, and one the context lacks
UpdateKeys == {"email_content", "extracted_info", "current_draft", "no_such_field"}

\* update_context sets any attribute the context has, current_state included
AllUpdateKeys == UpdateKeys \cup {"current_state"}

UpdateValues(key) ==
    CASE key = "email_content" -> EmailValues \cup {None}
      [] key = "extracted_info" -> InfoValues \cup {None}
      [] key = "current_draft" -> DraftValues \cup {None}
      [] key = "current_state" -> ConversationState
      [] OTHER -> {None}

Next ==
    \/ \E intent \in IntentArgs, success \in BOOLEAN : TransitionState(intent, success)
    \/ \E key \in UpdateKeys : \E value \in UpdateValues(key) : UpdateContext(key, value)
    \/ ArchiveCurrentEmailSession
    \/ ResetEmailContext

Spec == Init /\ [][Next]_vars

-----------------------------------------------------------------------------
(* intent_classifier.py: user inputs                                        *)
(*                                                                          *)
(* An input is a set of phrases of a fixed vocabulary; its text is the      *)
(* phrases it holds, joined by blanks in vocabulary order.  The regular     *)
(* expressions of the source are evaluated on this vocabulary: a pattern    *)
(* that is not anchored hits wherever its phrase stands, a pattern anchored *)
(* with ^...$ hits only when its phrase is the whole (stripped) text.       *)

\* the phrase that is only whitespace
Blank == "   "

Vocabulary ==
    <<"load report.pdf", "and write back", "need to reply", "make it more formal", "save it",
      "save to cloud", "key information", "explain", "sounds good", "please do",
      "maybe later", "session history", "view session 2", "yes", "OK", "yes!",
      "okay", "sure", "go for it", "do it", "no", "not yet", "nope", "not now",
      "skip", "no thanks", "pass", "something", Blank>>

Phrases == {Vocabulary[k] : k \in DOMAIN Vocabulary}

\* phrases in one input
MaxPhrases == 2

\* the short replies: phrases that only count when they are the whole message
ShortReplies ==
    {"yes", "OK", "yes!", "okay", "sure", "do it", "no", "not yet", "nope",
     "not now", "skip", "no thanks", "pass"}

RECURSIVE InputsUpTo(_)
\* the sets of at most n phrases
InputsUpTo(n) ==
    IF n = 0 THEN {{}}
    ELSE LET shorter == InputsUpTo(n - 1)
         IN  shorter \cup {inp \cup {p} : inp \in shorter, p \in Phrases}

\* the user_input arguments of classify: at most MaxPhrases phrases, at most
\* one of them a short reply
UserInputs ==
    {inp \in InputsUpTo(MaxPhrases) : Cardinality(inp \cap ShortReplies) <= 1}

\* the raw text of an input: its phrases in vocabulary order
Text(inp) == SelectSeq(Vocabulary, LAMBDA p : p \in inp)

\* str.lower() on a phrase
Lower(p) == IF p = "OK" THEN "ok" ELSE p

\* user_input.lower().strip(): leading and trailing whitespace goes, the
\* letters are lowered
Clean(inp) ==
    LET kept == SelectSeq(Vocabulary, LAMBDA p : p \in inp /\ p # Blank)
    IN  [k \in DOMAIN kept |-> Lower(kept[k])]

-----------------------------------------------------------------------------
(* intent_classifier.py: the pattern library (_setup_rule_patterns)         *)

\* iteration order of self.intent_patterns (dict insertion order)
PatternOrder ==
    <<"LOAD_EMAIL", "DRAFT_REPLY", "REFINE_DRAFT", "SAVE_DRAFT", "EXTRACT_INFO",
      "GENERAL_HELP", "CONTINUE_WORKFLOW", "DECLINE_OFFER",
      "VIEW_SESSION_HISTORY", "VIEW_SPECIFIC_SESSION">>

\* config['confidence'] of each intent, in hundredths
base_confidence ==
    ("LOAD_EMAIL" :> 90) @@ ("DRAFT_REPLY" :> 85) @@ ("REFINE_DRAFT" :> 80) @@
    ("SAVE_DRAFT" :> 95) @@ ("EXTRACT_INFO" :> 80) @@ ("GENERAL_HELP" :> 90) @@
    ("CONTINUE_WORKFLOW" :> 70) @@ ("DECLINE_OFFER" :> 70) @@
    ("VIEW_SESSION_HISTORY" :> 85) @@ ("VIEW_SPECIFIC_SESSION" :> 90)

\* the intent whose unanchored pattern hits the (lowered) phrase:
\*   load.*\.(pdf|...)  need to reply  make it more (formal|...)  save it
\*   save.*cloud  key information  explain  sounds good  please do
\*   go for it  maybe later  session.*history  view.*session.*\d+
HitsAnywhere(intent, phrase) ==
    \/ intent = "LOAD_EMAIL" /\ phrase = "load report.pdf"
    \/ intent = "DRAFT_REPLY" /\ phrase = "need to reply"
    \/ intent = "REFINE_DRAFT" /\ phrase = "make it more formal"
    \/ intent = "SAVE_DRAFT" /\ phrase \in {"save it", "save to cloud"}
    \/ intent = "EXTRACT_INFO" /\ phrase = "key information"
    \/ intent = "GENERAL_HELP" /\ phrase = "explain"
    \/ intent = "CONTINUE_WORKFLOW" /\
           phrase \in {"sounds good", "please do", "go for it"}
    \/ intent = "DECLINE_OFFER" /\ phrase = "maybe later"
    \/ intent = "VIEW_SESSION_HISTORY" /\ phrase = "session history"
    \/ intent = "VIEW_SPECIFIC_SESSION" /\ phrase = "view session 2"

\* the intent whose anchored pattern hits the phrase when it is the whole text:
\*   ^yes[!.]*$  ^ok[!.]*$  ^okay[!.]*$  ^sure[!.]*$  ^do it[!.]*$
\*   ^no[!.]*$  ^not yet[!.]*$  ^nope[!.]*$  ^not now[!.]*$  ^skip[!.]*$
\*   ^no thanks[!.]*$  ^pass[!.]*$
HitsAlone(intent, phrase) ==
    \/ intent = "CONTINUE_WORKFLOW" /\
           phrase \in {"yes", "ok", "yes!", "okay", "sure", "do it"}
    \/ intent = "DECLINE_OFFER" /\
           phrase \in {"no", "not yet", "nope", "not now", "skip", "no thanks", "pass"}

\* any(re.search(pattern, user_input_lower) for pattern in config['patterns'])
Matched(intent, clean) ==
    \/ \E k \in DOMAIN clean : HitsAnywhere(intent, clean[k])
    \/ Len(clean) = 1 /\ HitsAlone(intent, clean[1])

\* matched_patterns: the patterns that hit, named by the phrases they hit
MatchedPatterns(intent, clean) ==
    {clean[k] : k \in {j \in DOMAIN clean :
                          \/ HitsAnywhere(intent, clean[j])
                          \/ Len(clean) = 1 /\ HitsAlone(intent, clean[j])}}

-----------------------------------------------------------------------------
(* intent_classifier.py: context adjustments (_setup_context_patterns)      *)

\* adjustments['default_boost'] of the states that register adjustments
default_boost ==
    ("EMAIL_LOADED" :> (("DRAFT_REPLY" :> 10) @@ ("EXTRACT_INFO" :> 10))) @@
    ("INFO_EXTRACTED" :> ("DRAFT_REPLY" :> 15)) @@
    ("DRAFT_CREATED" :> (("SAVE_DRAFT" :> 10) @@ ("REFINE_DRAFT" :> 10))) @@
    ("DRAFT_REFINED" :> ("SAVE_DRAFT" :> 15)) @@
    ("ERROR_RECOVERY" :>
        (("DRAFT_REPLY" :> 20) @@ ("EXTRACT_INFO" :> 10) @@ ("SAVE_DRAFT" :> 10)))

\* the literal lists of _apply_context_adjustments
AffirmativePhrases ==
    {"yes", "ok", "okay", "continue", "proceed", "sure", "please do",
     "go for it", "do it"}
NegativePhrases ==
    {"no", "nope", "not now", "not yet", "skip", "skip that", "skip it",
     "no thanks", "no thank you", "pass"}

\* user_input_clean in [...]: the whole text is one of the listed phrases
IsExactly(clean, phrases) == Len(clean) = 1 /\ clean[1] \in phrases

Min(a, b) == IF a < b THEN a ELSE b
Max(a, b) == IF a > b THEN a ELSE b

\* Variant: no exact-phrase override, only the state's confidence delta
ApplyContextAdjustments_DeltaOnly(intent, confidence, clean, state) ==
    IF state \notin DOMAIN default_boost THEN confidence
    ELSE Min(confidence + (IF intent \in DOMAIN default_boost[state]
                           THEN default_boost[state][intent] ELSE 0),
             100)

\* Variant: the sum is not capped at 1.0
ApplyContextAdjustments_Uncapped(intent, confidence, clean, state) ==
    IF state \notin DOMAIN default_boost THEN confidence
    ELSE IF IsExactly(clean, AffirmativePhrases) /\ intent = "CONTINUE_WORKFLOW" THEN 95
    ELSE IF IsExactly(clean, NegativePhrases) /\ intent = "DECLINE_OFFER" THEN 95
    ELSE confidence + (IF intent \in DOMAIN default_boost[state]
                       THEN default_boost[state][intent] ELSE 0)

\* HybridIntentClassifier._apply_context_adjustments
ApplyContextAdjustments(intent, confidence, clean, state) ==
    IF state \notin DOMAIN default_boost THEN confidence
    ELSE IF IsExactly(clean, AffirmativePhrases) /\ intent = "CONTINUE_WORKFLOW" THEN 95
    ELSE IF IsExactly(clean, NegativePhrases) /\ intent = "DECLINE_OFFER" THEN 95
    ELSE Min(confidence + (IF intent \in DOMAIN default_boost[state]
                           THEN default_boost[state][intent] ELSE 0),
             100)

-----------------------------------------------------------------------------
(* intent_classifier.py: parameter extractors, evaluated on the vocabulary  *)

\* a dict with no keys
EmptyParams == [k \in {} |-> None]

\* _extract_email_content: the file-path heuristic finds "report.pdf" after
\* load; no other phrase looks like a path, an introduced email or headers
ExtractEmailContent(inp) ==
    IF "load report.pdf" \in inp THEN "report.pdf" ELSE None

\* _extract_tone: formal|professional
ExtractTone(clean) ==
    IF \E k \in DOMAIN clean : clean[k] = "make it more formal" THEN "formal" ELSE None

\* _extract_refinement_instructions: the joined matches of make it more \w+,
\* or the whole input when nothing matches
ExtractRefinementInstructions(inp) ==
    IF "make it more formal" \in inp THEN <<"make it more formal">> ELSE Text(inp)

\* _extract_cloud_preference: save.*cloud
ExtractCloudPreference(clean) ==
    \E k \in DOMAIN clean : clean[k] = "save to cloud"

\* _extract_filepath: no phrase names a file to save to ("cloud" is skipped)
ExtractFilepath(clean) == None

\* _extract_session_id: (?:email|session)\s+(\d+)
ExtractSessionId(inp) ==
    IF "view session 2" \in inp THEN "email_2" ELSE None

-----------------------------------------------------------------------------
(* intent_classifier.py: the rule scorer                                    *)

IntentResult(intent, confidence, parameters, reasoning, method) ==
    [intent |-> intent, confidence |-> confidence, parameters |-> parameters,
     reasoning |-> reasoning, method |-> method]

\* one round of the loop over self.intent_patterns: the confidence of `intent`
IntentConfidence(intent, clean, state) ==
    LET confidence == IF Matched(intent, clean) THEN base_confidence[intent] ELSE 0
    IN  Max(confidence, ApplyContextAdjustments(intent, confidence, clean, state))

\* Variant: an equal confidence replaces the best so far
Better_OrEqual(confidence, best_confidence) == confidence >= best_confidence

\* if confidence > best_confidence: the new best replaces the old one
Better(confidence, best_confidence) == confidence > best_confidence

RECURSIVE ScanIntents(_, _, _, _)
\* the loop over self.intent_patterns from its k-th entry on
ScanIntents(k, best, clean, state) ==
    IF k > Len(PatternOrder) THEN best
    ELSE LET intent == PatternOrder[k]
             confidence == IntentConfidence(intent, clean, state)
         IN  ScanIntents(k + 1,
                         IF Better(confidence, best.confidence)
                         THEN [match |-> intent, confidence |-> confidence]
                         ELSE best,
                         clean, state)

\* the value of `confidence` at line 448 in each round of the loop, in
\* registration order
Scores(inp, state) ==
    [k \in DOMAIN PatternOrder |-> IntentConfidence(PatternOrder[k], Clean(inp), state)]

\* HybridIntentClassifier._classify_with_rules
ClassifyWithRules(inp, state) ==
    LET clean == Clean(inp)
        best == ScanIntents(1, [match |-> None, confidence |-> 0], clean, state)
        sniffed == IF Truthy(ExtractEmailContent(inp))
                   THEN ("email_content" :> ExtractEmailContent(inp))
                   ELSE EmptyParams
        extracted == IF best.match = None THEN EmptyParams
                     ELSE ("matched_patterns" :> MatchedPatterns(best.match, clean)) @@
                          ("tone" :> ExtractTone(clean)) @@
                          ("refinement_instructions" :> ExtractRefinementInstructions(inp)) @@
                          ("cloud" :> ExtractCloudPreference(clean)) @@
                          ("filepath" :> ExtractFilepath(clean)) @@
                          ("session_id" :> ExtractSessionId(inp))
    IN  IntentResult(IF best.match = None THEN "CLARIFICATION_NEEDED" ELSE best.match,
                     best.confidence,
                     extracted @@ sniffed,
                     <<"Rule-based match with confidence ", ToString(best.confidence)>>,
                     "rule_based")

-----------------------------------------------------------------------------
(* intent_classifier.py: the collaborator (email_processor.send_prompt)     *)

\* self.email_processor: None, an object without a callable send_prompt, or
\* an object with one
Processors == {"none", "no_send_prompt", "llm"}

\* What one send_prompt call does: it raises, returns something that is not
\* a str, or returns text.  Text is prose, a JSON array or a JSON object,
\* bare or fenced in ``` / ```json.  A JSON object may lack "intent",
\* "confidence" or "reasoning" (None); its "confidence" is a number (in
\* hundredths), a string that is no number ("text") or null.
Response(kind, fence, body, intent, conf_kind, confidence, parameters, reasoning) ==
    [kind |-> kind, fence |-> fence, body |-> body, intent |-> intent,
     conf_kind |-> conf_kind, confidence |-> confidence,
     parameters |-> parameters, reasoning |-> reasoning]

Opaque(kind) == Response(kind, "none", "prose", None, "missing", 0, EmptyParams, None)
JsonObject(fence, intent, conf_kind, confidence, parameters, reasoning) ==
    Response("text", fence, "object", intent, conf_kind, confidence, parameters, reasoning)

\* send_prompt raises
Raises == Opaque("raise")
\* send_prompt returns a non-str object
NonString == Opaque("nonstr")
\* "This is not JSON"
Prose == Opaque("text")
\* "[1, 2]"
JsonArray == Response("text", "none", "array", None, "missing", 0, EmptyParams, None)
\* no call was made: the place of a response that is never read
Unused == Opaque("unused")

\* confidences a JSON answer carries, in hundredths
LlmConfidences == {-20, 0, 10, 15, 20, 30, 40, 45, 85, 150}

Responses ==
    {Raises, NonString, Prose, JsonArray,
     JsonObject("none", "DRAFT_REPLY", "number", 85, ("tone" :> "formal"), "formal reply"),
     JsonObject("json", "SAVE_DRAFT", "number", 90, EmptyParams, "save"),
     JsonObject("plain", "LOAD_EMAIL", "number", 45, EmptyParams, "load"),
     JsonObject("none", None, "missing", 0, EmptyParams, None),
     JsonObject("none", "EXTRACT_INFO", "text", 0, EmptyParams, "high"),
     JsonObject("none", "EXTRACT_INFO", "null", 0, EmptyParams, "null"),
     JsonObject("none", "BOGUS_INTENT", "number", 95, EmptyParams, "bogus")}
    \cup {JsonObject("none", "GENERAL_HELP", "number", c, EmptyParams, "help") :
             c \in LlmConfidences}

-----------------------------------------------------------------------------
(* intent_classifier.py: the escalation to the collaborator                 *)

\* the markdown clean-up of _parse_llm_response: the text between the fences
StripFence(response) == [response EXCEPT !.fence = "none"]

\* Variant: the error result drops the diagnostics it was given
ErrorFallback_NoDiagnostics(confidence, parameters, reasoning) ==
    IntentResult("CLARIFICATION_NEEDED", confidence, EmptyParams, <<reasoning>>,
                 "error_fallback")

\* the result both error paths of the collaborator end in
ErrorFallback(confidence, parameters, reasoning) ==
    IntentResult("CLARIFICATION_NEEDED", confidence, parameters, <<reasoning>>,
                 "error_fallback")

\* HybridIntentClassifier._parse_llm_response: the result, or the exception
\* that its except clause (JSONDecodeError, KeyError, ValueError) lets through
ParseLlmResponse(response) ==
    LET text == StripFence(response)
        parse_error(exc) ==
            [raised |-> FALSE, exc |-> None,
             result |-> ErrorFallback(30,
                            ("parse_error" :> exc) @@ ("raw_response" :> text),
                            "Failed to parse LLM response")]
        escapes(exc) ==
            [raised |-> TRUE, exc |-> exc,
             result |-> ErrorFallback(0, EmptyParams, exc)]
    IN  CASE text.body = "prose" -> parse_error("JSONDecodeError")
          [] text.body = "array" -> escapes("AttributeError")
          [] text.conf_kind = "text" -> parse_error("ValueError")
          [] text.conf_kind = "null" -> escapes("TypeError")
          [] OTHER ->
               [raised |-> FALSE, exc |-> None,
                result |->
                  IntentResult(
                    IF text.intent = None THEN "CLARIFICATION_NEEDED" ELSE text.intent,
                    IF text.conf_kind = "missing" THEN 50 ELSE text.confidence,
                    text.parameters,
                    <<IF text.reasoning = None THEN "LLM classification"
                      ELSE text.reasoning>>,
                    "llm_based")]

\* the fallback results of _classify_with_llm that carry no diagnostics
Unavailable(reasoning) ==
    IntentResult("CLARIFICATION_NEEDED", 50, EmptyParams, <<reasoning>>, "fallback")

\* HybridIntentClassifier._classify_with_llm: the result and the number of
\* send_prompt calls made
ClassifyWithLlm(processor, response) ==
    IF processor = "none"
    THEN [sent |-> 0, result |-> Unavailable("LLM classification not available")]
    ELSE IF processor = "no_send_prompt"
    THEN [sent |-> 0,
          result |-> Unavailable("LLM classification method not available")]
    ELSE [sent |-> 1,
          result |->
            IF response.kind = "raise"
            THEN ErrorFallback(50, ("error" :> "send_prompt"),
                               "LLM classification failed")
            ELSE IF response.kind # "text"
            THEN Unavailable("LLM classification returned invalid response type")
            ELSE LET parsed == ParseLlmResponse(response)
                 IN  IF parsed.raised
                     THEN ErrorFallback(50, ("error" :> parsed.exc),
                                        "LLM classification failed")
                     ELSE IF parsed.result.method # "error_fallback"
                     THEN [parsed.result EXCEPT !.method = "llm_based"]
                     ELSE parsed.result]

\* if rule_result.confidence >= 0.8: return rule_result
Confident(rule) == rule.confidence >= 80

\* Variant: the collaborator path is entered without a collaborator
Ambiguous_Unconditional(rule, processor) == rule.confidence < 60

\* Variant: the collaborator is consulted for every rule result that is not
\* confident
Ambiguous_BelowConfident(rule, processor) ==
    processor # "none" /\ rule.confidence < 80

\* if self.email_processor and rule_result.confidence < 0.6
Ambiguous(rule, processor) == processor # "none" /\ rule.confidence < 60

\* Variant: the collaborator is asked whenever one is configured, before the
\* rule scorer's confidence is looked at
ClassifyOutcome_AlwaysAsks(rule, inp, processor, r1, r2) ==
    LET first == ClassifyWithLlm(processor, r1)
    IN  IF processor # "none" /\ first.result.confidence > rule.confidence
        THEN [result |-> first.result, sent |-> first.sent, raised |-> FALSE]
        ELSE [result |-> rule,
              sent |-> IF processor # "none" THEN first.sent ELSE 0,
              raised |-> FALSE]

\* Variant: the first answer of the collaborator is taken when its confidence
\* equals the rule scorer's
ClassifyOutcome_AcceptsEqual(rule, inp, processor, r1, r2) ==
    IF Confident(rule) THEN [result |-> rule, sent |-> 0, raised |-> FALSE]
    ELSE
    LET asked == Ambiguous(rule, processor)
        first == ClassifyWithLlm(processor, r1)
        sent1 == IF asked THEN first.sent ELSE 0
        second == ClassifyWithLlm(processor, r2)
    IN  IF asked /\ first.result.confidence >= rule.confidence
        THEN [result |-> first.result, sent |-> sent1, raised |-> FALSE]
        ELSE IF rule.confidence > 30
        THEN [result |-> rule, sent |-> sent1, raised |-> FALSE]
        ELSE IF processor # "none" /\ second.result.confidence > 40
        THEN [result |-> [second.result EXCEPT
                            !.reasoning = <<"Fallback LLM classification: ">> \o @],
              sent |-> sent1 + second.sent, raised |-> FALSE]
        ELSE [result |->
                IntentResult("CLARIFICATION_NEEDED", 90,
                    ("original_input" :> Text(inp)) @@
                    ("fallback_attempted" :> (processor # "none")),
                    <<"Input is ambiguous and needs clarification">>,
                    "fallback"),
              sent |-> sent1 + (IF processor # "none" THEN second.sent ELSE 0),
              raised |-> FALSE]

\* Variant: the bar of the last-resort call is 0.04, not 0.4
ClassifyOutcome_LowBar(rule, inp, processor, r1, r2) ==
    IF Confident(rule) THEN [result |-> rule, sent |-> 0, raised |-> FALSE]
    ELSE
    LET asked == Ambiguous(rule, processor)
        first == ClassifyWithLlm(processor, r1)
        sent1 == IF asked THEN first.sent ELSE 0
        second == ClassifyWithLlm(processor, r2)
    IN  IF asked /\ first.result.confidence > rule.confidence
        THEN [result |-> first.result, sent |-> sent1, raised |-> FALSE]
        ELSE IF rule.confidence > 30
        THEN [result |-> rule, sent |-> sent1, raised |-> FALSE]
        ELSE IF processor # "none" /\ second.result.confidence > 4
        THEN [result |-> [second.result EXCEPT
                            !.reasoning = <<"Fallback LLM classification: ">> \o @],
              sent |-> sent1 + second.sent, raised |-> FALSE]
        ELSE [result |->
                IntentResult("CLARIFICATION_NEEDED", 90,
                    ("original_input" :> Text(inp)) @@
                    ("fallback_attempted" :> (processor # "none")),
                    <<"Input is ambiguous and needs clarification">>,
                    "fallback"),
              sent |-> sent1 + (IF processor # "none" THEN second.sent ELSE 0),
              raised |-> FALSE]

\* HybridIntentClassifier.classify, given the rule scorer's result and what
\* the first and the second send_prompt call would do: the result, the
\* number of send_prompt calls made, and whether an exception leaves classify
ClassifyOutcome(rule, inp, processor, r1, r2) ==
    IF Confident(rule) THEN [result |-> rule, sent |-> 0, raised |-> FALSE]
    ELSE
    LET asked == Ambiguous(rule, processor)
        first == ClassifyWithLlm(processor, r1)
        sent1 == IF asked THEN first.sent ELSE 0
        second == ClassifyWithLlm(processor, r2)
    IN  IF asked /\ first.result.confidence > rule.confidence
        THEN [result |-> first.result, sent |-> sent1, raised |-> FALSE]
        ELSE IF rule.confidence > 30
        THEN [result |-> rule, sent |-> sent1, raised |-> FALSE]
        ELSE IF processor # "none" /\ second.result.confidence > 40
        THEN [result |-> [second.result EXCEPT
                            !.reasoning = <<"Fallback LLM classification: ">> \o @],
              sent |-> sent1 + second.sent, raised |-> FALSE]
        ELSE [result |->
                IntentResult("CLARIFICATION_NEEDED", 90,
                    ("original_input" :> Text(inp)) @@
                    ("fallback_attempted" :> (processor # "none")),
                    <<"Input is ambiguous and needs clarification">>,
                    "fallback"),
              sent |-> sent1 + (IF processor # "none" THEN second.sent ELSE 0),
              raised |-> FALSE]

\* the responses a call of classify reads: none, the first, or both
FirstResponses(rule, inp, processor) ==
    IF ClassifyOutcome(rule, inp, processor, Unused, Unused).sent >= 1
    THEN Responses ELSE {Unused}
SecondResponses(rule, inp, processor, r1) ==
    IF ClassifyOutcome(rule, inp, processor, r1, Unused).sent >= 2
    THEN Responses ELSE {Unused}

\* Variant: classify records the intent it found in the context
ClassifyCall_RecordsIntent(inp, processor, answers, repeat) ==
    \E rule \in {ClassifyWithRules(inp, current_state)} :
      \E r1 \in FirstResponses(rule, inp, processor) \cap (answers \cup {Unused}) :
        \E r2 \in SecondResponses(rule, inp, processor, r1) \cap (answers \cup {Unused}) :
          \E run \in {ClassifyOutcome(rule, inp, processor, r1, r2)} :
            /\ last_call' = [op |-> "classify", input |-> inp,
                             processor |-> processor,
                             responses |-> <<r1, r2>>,
                             rule |-> rule,
                             scores |-> Scores(inp, current_state),
                             result |-> run.result,
                             sent |-> run.sent,
                             raised |-> run.raised,
                             repeat |-> repeat,
                             first |-> IF repeat THEN last_call.result
                                       ELSE run.result]
            /\ last_intent' = run.result.intent
            /\ UNCHANGED <<current_state, email_content,
                           extracted_info, current_draft, draft_history,
                           email_sessions, conversation_history, workflow,
                           agent, turns>>

\* HybridIntentClassifier.classify(user_input, context) on a classifier built
\* with email_processor = processor, whose send_prompt answers with one of
\* `answers`.  `repeat` tells that the call repeats the call before it;
\* last_call then keeps the result of that call in `first`.
ClassifyCall(inp, processor, answers, repeat) ==
    \E rule \in {ClassifyWithRules(inp, current_state)} :
      \E r1 \in FirstResponses(rule, inp, processor) \cap (answers \cup {Unused}) :
        \E r2 \in SecondResponses(rule, inp, processor, r1) \cap (answers \cup {Unused}) :
          \E run \in {ClassifyOutcome(rule, inp, processor, r1, r2)} :
            /\ last_call' = [op |-> "classify", input |-> inp,
                             processor |-> processor,
                             responses |-> <<r1, r2>>,
                             rule |-> rule,
                             scores |-> Scores(inp, current_state),
                             result |-> run.result,
                             sent |-> run.sent,
                             raised |-> run.raised,
                             repeat |-> repeat,
                             first |-> IF repeat THEN last_call.result
                                       ELSE run.result]
            /\ UNCHANGED <<current_state, last_intent, email_content,
                           extracted_info, current_draft, draft_history,
                           email_sessions, conversation_history, workflow,
                           agent, turns>>

\* classify with a collaborator that may answer anything
Classify(inp, processor) == ClassifyCall(inp, processor, Responses, FALSE)

\* the collaborator of the last call answered like a deterministic one: it
\* was asked at most once, or gave the same answer twice
AnsweredDeterministically ==
    last_call.sent < 2 \/ last_call.responses[1] = last_call.responses[2]

\* the same classify call once more, the collaborator answering every prompt
\* with the one answer it gave before (it is free to answer if it was not
\* asked)
ClassifyAgain ==
    /\ last_call.op = "classify"
    /\ ~last_call.repeat
    /\ AnsweredDeterministically
    /\ ClassifyCall(last_call.input, last_call.processor,
                    IF last_call.sent >= 1 THEN {last_call.responses[1]}
                    ELSE Responses,
                    TRUE)

\* a context in any conversation state, as the callers of classify set it up
InitClassify ==
    /\ current_state \in ConversationState
    /\ last_intent = None
    /\ email_content = None
    /\ extracted_info = None
    /\ current_draft = None
    /\ draft_history = <<>>
    /\ email_sessions = <<>>
    /\ conversation_history = <<>>
    /\ last_call = [op |-> "init"]
    /\ workflow = OffScript
    /\ agent = FreshAgent
    /\ turns = NoTurns

\* classify keeps no state of its own, so one call is observed per context
NextClassify ==
    /\ last_call.op # "classify"
    /\ \E inp \in UserInputs, processor \in Processors : Classify(inp, processor)

SpecClassify == InitClassify /\ [][NextClassify]_vars

-----------------------------------------------------------------------------
(* One public call on a context: a fresh one, or one in mid-conversation    *)
(* in any state (an email loaded, information extracted, a draft written,   *)
(* one message said)                                                        *)

InitCall ==
    /\ last_call = [op |-> "init"]
    /\ workflow = OffScript
    /\ agent = FreshAgent
    /\ turns = NoTurns
    /\ email_sessions = <<>>
    /\ \/ /\ current_state = "GREETING"
          /\ last_intent = None
          /\ email_content = None
          /\ extracted_info = None
          /\ current_draft = None
          /\ draft_history = <<>>
          /\ conversation_history = <<>>
       \/ /\ current_state \in ConversationState
          /\ last_intent = "DRAFT_REPLY"
          /\ email_content \in EmailValues
          /\ extracted_info \in InfoValues
          /\ current_draft \in DraftValues
          /\ draft_history \in {<<d>> : d \in DraftValues}
          /\ conversation_history \in
                {<<[role |-> "user", content |-> c]>> : c \in Contents}

\* no call has been made on the context yet
FirstCall == last_call.op = "init"

\* the call made on the context, and a classify call made once more
NextCall ==
    \/ FirstCall /\ \E inp \in UserInputs, processor \in Processors :
                       Classify(inp, processor)
    \/ ClassifyAgain
    \/ FirstCall /\ \E intent \in IntentArgs, success \in BOOLEAN :
                       TransitionState(intent, success)
    \/ FirstCall /\ \E key \in AllUpdateKeys : \E value \in UpdateValues(key) :
                       UpdateContext(key, value)
    \/ FirstCall /\ ArchiveCurrentEmailSession
    \/ FirstCall /\ ResetEmailContext
    \/ FirstCall /\ \E role \in Roles, content \in Contents :
                       AddToHistory(role, content)
    \/ FirstCall /\ \E limit \in Limits : GetRecentHistory(limit)
    \/ FirstCall /\ GetAllSessionSummaries
    \/ FirstCall /\ \E session_id \in SessionIds : GetSessionById(session_id)
    \/ FirstCall /\ \E intent \in IntentArgs : CanTransition(intent)
    \/ FirstCall /\ GetValidIntents

SpecCall == InitCall /\ [][NextCall]_vars

-----------------------------------------------------------------------------
(* Claims about the conversation state machine *)

\* the last call was transition_state
IsTransition == last_call.op = "transition_state"

\* C1: for every state S and intent I, transition_state(I, success=False)
\* called in S leaves current_state = ERROR_RECOVERY and returns
\* ERROR_RECOVERY, whatever the table holds for (S, I).
C1_FailureGoesToErrorRecovery ==
    (IsTransition /\ ~last_call.success) =>
        /\ current_state = "ERROR_RECOVERY"
        /\ last_call.returned = "ERROR_RECOVERY"

\* a failed LOAD_EMAIL from READY_TO_SAVE: the table maps it to EMAIL_LOADED
C1_Witness ==
    /\ IsTransition /\ ~last_call.success
    /\ last_call.intent = "LOAD_EMAIL"
    /\ last_call.from_state = "READY_TO_SAVE"
    /\ current_state = "ERROR_RECOVERY"

\* C2: transition_state(I, success=True) in state S: when (S, I) is tabled,
\* current_state becomes the mapped state and last_intent becomes I; when it
\* is absent, current_state stays S, S is returned, last_intent is unchanged;
\* no exception is raised in either case.
C2_SuccessfulTransition ==
    (IsTransition /\ last_call.success) =>
        LET S == last_call.from_state
            I == last_call.intent
        IN  /\ ~last_call.raised
            /\ IF I \in DOMAIN transitions[S]
               THEN /\ current_state = transitions[S][I]
                    /\ last_call.returned = transitions[S][I]
                    /\ last_intent = I
               ELSE /\ current_state = S
                    /\ last_call.returned = S
                    /\ last_intent = last_call.from_last_intent

\* SAVE_DRAFT is not tabled in EMAIL_LOADED: after LOAD_EMAIL was recorded, a
\* successful SAVE_DRAFT leaves the state and last_intent as they were
C2_Witness ==
    /\ IsTransition /\ last_call.success
    /\ last_call.intent = "SAVE_DRAFT"
    /\ last_call.from_state = "EMAIL_LOADED"
    /\ current_state = "EMAIL_LOADED"
    /\ last_intent = "LOAD_EMAIL"

\* C3: transition_state(I, success=False) records the intent: after the call
\* context.last_intent = I, for every state and intent.
C3_FailureRecordsLastIntent ==
    (IsTransition /\ ~last_call.success) => last_intent = last_call.intent

\* C4: on a fresh manager the successful calls LOAD_EMAIL, DRAFT_REPLY,
\* REFINE_DRAFT, SAVE_DRAFT, SAVE_DRAFT visit EMAIL_LOADED, DRAFT_CREATED,
\* DRAFT_REFINED, READY_TO_SAVE and end in CONVERSATION_COMPLETE; likewise
\* with EXTRACT_INFO -> INFO_EXTRACTED inserted after the load.
C4_Visited ==
    <<"EMAIL_LOADED", "DRAFT_CREATED", "DRAFT_REFINED", "READY_TO_SAVE",
      "CONVERSATION_COMPLETE">>
C4_VisitedWithExtract ==
    <<"EMAIL_LOADED", "INFO_EXTRACTED", "DRAFT_CREATED", "DRAFT_REFINED",
      "READY_TO_SAVE", "CONVERSATION_COMPLETE">>
C4_FullWorkflow ==
    /\ workflow = <<>> => current_state = "GREETING"
    /\ (workflow # <<>> /\ workflow # OffScript /\ IsPrefix(workflow, FullWorkflow))
          => current_state = C4_Visited[Len(workflow)]
    /\ (workflow # <<>> /\ workflow # OffScript
          /\ IsPrefix(workflow, FullWorkflowWithExtract))
          => current_state = C4_VisitedWithExtract[Len(workflow)]

\* the whole script has run
C4_Witness ==
    /\ workflow = FullWorkflow
    /\ current_state = "CONVERSATION_COMPLETE"

\* the states reachable from the states in `seen` by successful tabled
\* transitions
RECURSIVE Reach(_)
Reach(seen) ==
    LET more == seen \cup
                {valid_transitions(s)[i] :
                    <<s, i>> \in {<<t, j>> \in seen \X Intents :
                                     j \in DOMAIN valid_transitions(t)}}
    IN  IF more = seen THEN seen ELSE Reach(more)

\* C5: no state is a dead end: each of the nine states has an intent whose
\* successful transition leaves it, and CONVERSATION_COMPLETE is reachable
\* from each by successful tabled transitions.
C5_DeadEnds ==
    {S \in ConversationState :
        \/ \A I \in DOMAIN valid_transitions(S) : valid_transitions(S)[I] = S
        \/ "CONVERSATION_COMPLETE" \notin Reach({S})}
C5_NoDeadEnd ==
    /\ current_state \in ConversationState
    /\ C5_DeadEnds = {}

\* the state with the fewest exits, entered by reset_email_context
C5_Witness ==
    /\ current_state = "WAITING_FOR_EMAIL"
    /\ last_call.op = "reset_email_context"

\* C6: from ERROR_RECOVERY a successful LOAD_EMAIL, DRAFT_REPLY, SAVE_DRAFT,
\* EXTRACT_INFO, REFINE_DRAFT or GENERAL_HELP leads to EMAIL_LOADED,
\* DRAFT_CREATED, CONVERSATION_COMPLETE, INFO_EXTRACTED, DRAFT_REFINED or
\* GREETING; a failed call from ERROR_RECOVERY stays in ERROR_RECOVERY.
C6_Recovery ==
    ("LOAD_EMAIL" :> "EMAIL_LOADED") @@
    ("DRAFT_REPLY" :> "DRAFT_CREATED") @@
    ("SAVE_DRAFT" :> "CONVERSATION_COMPLETE") @@
    ("EXTRACT_INFO" :> "INFO_EXTRACTED") @@
    ("REFINE_DRAFT" :> "DRAFT_REFINED") @@
    ("GENERAL_HELP" :> "GREETING")
C6_ErrorRecoveryRecovers ==
    (IsTransition /\ last_call.from_state = "ERROR_RECOVERY") =>
        /\ (last_call.success /\ last_call.intent \in DOMAIN C6_Recovery)
              => current_state = C6_Recovery[last_call.intent]
        /\ ~last_call.success => current_state = "ERROR_RECOVERY"

\* a draft is saved straight out of error recovery
C6_Witness ==
    /\ IsTransition /\ last_call.success
    /\ last_call.from_state = "ERROR_RECOVERY"
    /\ last_call.intent = "SAVE_DRAFT"
    /\ current_state = "CONVERSATION_COMPLETE"

\* C7: for every state S, transition_state('LOAD_EMAIL', success=True) from S
\* yields EMAIL_LOADED.
C7_LoadFromAnyState ==
    (IsTransition /\ last_call.success /\ last_call.intent = "LOAD_EMAIL") =>
        /\ current_state = "EMAIL_LOADED"
        /\ last_call.returned = "EMAIL_LOADED"

\* a new email is loaded after the conversation completed
C7_Witness ==
    /\ IsTransition /\ last_call.success /\ last_call.intent = "LOAD_EMAIL"
    /\ last_call.from_state = "CONVERSATION_COMPLETE"
    /\ current_state = "EMAIL_LOADED"

-----------------------------------------------------------------------------
(* Claims about the intent classifier (checked under SpecClassify)          *)

IsClassify == last_call.op = "classify"

\* the parameters of a result hold the collaborator's error or its raw response
CarriesDiagnostics(result) ==
    \/ "error" \in DOMAIN result.parameters
    \/ "raw_response" \in DOMAIN result.parameters

\* C8: whenever the rule scorer's confidence is at least 0.8, classify returns
\* the rule scorer's result (same intent and confidence, method rule_based)
\* and send_prompt is never invoked, in every state and with or without a
\* collaborator.
C8_ConfidentRuleSkipsLlm ==
    (IsClassify /\ last_call.rule.confidence >= 80) =>
        /\ last_call.result = last_call.rule
        /\ last_call.result.intent = last_call.rule.intent
        /\ last_call.result.confidence = last_call.rule.confidence
        /\ last_call.result.method = "rule_based"
        /\ last_call.sent = 0
        /\ ~last_call.raised

\* a collaborator is configured and the rule scorer sits exactly on the
\* threshold: "make it more formal" outside the states that boost REFINE_DRAFT
C8_Witness ==
    /\ IsClassify
    /\ last_call.processor = "llm"
    /\ last_call.rule.intent = "REFINE_DRAFT"
    /\ last_call.rule.confidence = 80
    /\ last_call.result.method = "rule_based"
    /\ last_call.sent = 0

\* C9: for an ambiguous input (rule scorer below 0.6), in any state, when the
\* collaborator raises or returns text that is not JSON, classify does not
\* raise and returns CLARIFICATION_NEEDED with method error_fallback and the
\* error or the raw response in its parameters.
C9_CollaboratorFailureFallsBack ==
    (/\ IsClassify
     /\ last_call.rule.confidence < 60
     /\ last_call.processor = "llm"
     /\ last_call.responses[1] \in {Raises, Prose}) =>
        /\ ~last_call.raised
        /\ last_call.result.intent = "CLARIFICATION_NEEDED"
        /\ last_call.result.method = "error_fallback"
        /\ CarriesDiagnostics(last_call.result)

\* the collaborator answers prose while ERROR_RECOVERY has boosted the rule
\* scorer to its highest ambiguous confidence, 0.2
C9_Witness ==
    /\ IsClassify
    /\ current_state = "ERROR_RECOVERY"
    /\ last_call.rule.confidence = 20
    /\ last_call.responses[1] = Prose
    /\ last_call.sent = 1
    /\ last_call.result.method = "error_fallback"
    /\ "raw_response" \in DOMAIN last_call.result.parameters

\* C10: when the collaborator returns a response that is not a string for an
\* ambiguous input, classify returns CLARIFICATION_NEEDED with method
\* error_fallback carrying the raw error or response, and no exception
\* propagates.
C10_NonTextIsErrorFallback ==
    (/\ IsClassify
     /\ last_call.rule.confidence < 60
     /\ last_call.processor = "llm"
     /\ last_call.responses[1] = NonString) =>
        /\ ~last_call.raised
        /\ last_call.result.intent = "CLARIFICATION_NEEDED"
        /\ last_call.result.method = "error_fallback"
        /\ CarriesDiagnostics(last_call.result)

\* the answer of the first send_prompt call outranks the rule scorer (line 395)
FirstAccepted ==
    /\ last_call.processor # "none"
    /\ last_call.rule.confidence < 60
    /\ ClassifyWithLlm(last_call.processor, last_call.responses[1]).result.confidence
          > last_call.rule.confidence

\* the answer of the final-fallback send_prompt call is above 0.4 (line 405)
SecondAccepted ==
    /\ last_call.processor # "none"
    /\ ClassifyWithLlm(last_call.processor, last_call.responses[2]).result.confidence > 40

\* C11: when the rule scorer's confidence is at most 0.3 and no collaborator
\* result is accepted (none configured, or its results rejected), classify
\* returns CLARIFICATION_NEEDED, confidence 0.9, method fallback, with
\* parameters exactly {original_input, fallback_attempted}, fallback_attempted
\* being true iff a collaborator is configured; in particular empty or
\* whitespace-only input yields CLARIFICATION_NEEDED with confidence >= 0.9
\* in every conversation state.
C11_ClarificationFallback ==
    /\ (IsClassify /\ last_call.rule.confidence <= 30
          /\ ~FirstAccepted /\ ~SecondAccepted) =>
        /\ last_call.result.intent = "CLARIFICATION_NEEDED"
        /\ last_call.result.confidence = 90
        /\ last_call.result.method = "fallback"
        /\ DOMAIN last_call.result.parameters = {"original_input", "fallback_attempted"}
        /\ last_call.result.parameters["original_input"] = Text(last_call.input)
        /\ last_call.result.parameters["fallback_attempted"]
              = (last_call.processor # "none")
    /\ (IsClassify /\ last_call.input \subseteq {Blank}
          /\ ~FirstAccepted /\ ~SecondAccepted) =>
        /\ last_call.result.intent = "CLARIFICATION_NEEDED"
        /\ last_call.result.confidence >= 90

\* a configured collaborator is asked twice about whitespace in a state with
\* a confidence delta, and both of its answers are rejected
C11_Witness ==
    /\ IsClassify
    /\ current_state = "ERROR_RECOVERY"
    /\ last_call.input = {Blank}
    /\ last_call.processor = "llm"
    /\ last_call.sent = 2
    /\ ~FirstAccepted /\ ~SecondAccepted
    /\ last_call.result.method = "fallback"
    /\ last_call.result.parameters["fallback_attempted"] = TRUE

\* the states the exact-phrase claim names
OfferStates == {"EMAIL_LOADED", "INFO_EXTRACTED", "DRAFT_CREATED", "DRAFT_REFINED"}

\* the input, stripped and lowered, is exactly one of the phrases
InputIsExactly(phrases) ==
    Len(Clean(last_call.input)) = 1 /\ Clean(last_call.input)[1] \in phrases

\* C12: in each of EMAIL_LOADED, INFO_EXTRACTED, DRAFT_CREATED and
\* DRAFT_REFINED, an input that is exactly an affirmative phrase (yes, ok,
\* okay, sure, please do, go for it, do it) classifies as CONTINUE_WORKFLOW
\* with confidence >= 0.9, and one that is exactly a negative phrase (no, nope,
\* not now, skip, no thanks, pass) classifies as DECLINE_OFFER with confidence
\* >= 0.9, with method rule_based and no collaborator call.
C12_ExactPhraseOverrides ==
    /\ (IsClassify /\ current_state \in OfferStates
          /\ InputIsExactly({"yes", "ok", "okay", "sure", "please do",
                             "go for it", "do it"})) =>
        /\ last_call.result.intent = "CONTINUE_WORKFLOW"
        /\ last_call.result.confidence >= 90
        /\ last_call.result.method = "rule_based"
        /\ last_call.sent = 0
    /\ (IsClassify /\ current_state \in OfferStates
          /\ InputIsExactly({"no", "nope", "not now", "skip", "no thanks", "pass"})) =>
        /\ last_call.result.intent = "DECLINE_OFFER"
        /\ last_call.result.confidence >= 90
        /\ last_call.result.method = "rule_based"
        /\ last_call.sent = 0

\* "no thanks" in DRAFT_REFINED with a collaborator that is never asked
C12_Witness ==
    /\ IsClassify
    /\ current_state = "DRAFT_REFINED"
    /\ last_call.input = {"no thanks"}
    /\ last_call.processor = "llm"
    /\ last_call.result.intent = "DECLINE_OFFER"
    /\ last_call.result.confidence = 95
    /\ last_call.sent = 0

\* no pattern of any intent hits the input
NothingMatched ==
    \A k \in DOMAIN PatternOrder : ~Matched(PatternOrder[k], Clean(last_call.input))

\* the exact-phrase override of the current state applies to the input
OverrideApplies ==
    /\ current_state \in DOMAIN default_boost
    /\ IsExactly(Clean(last_call.input), AffirmativePhrases \cup NegativePhrases)

\* C13: if no pattern of any intent matches the input and no exact-phrase
\* override applies, the rule scorer returns CLARIFICATION_NEEDED with
\* confidence 0 in every conversation state; a state's confidence delta is
\* added only to intents whose patterns matched, so an unmatched intent is
\* never the scorer's winner.
C13_UnmatchedScoresZero ==
    IsClassify =>
        /\ (NothingMatched /\ ~OverrideApplies) =>
              /\ last_call.rule.intent = "CLARIFICATION_NEEDED"
              /\ last_call.rule.confidence = 0
        /\ last_call.rule.intent # "CLARIFICATION_NEEDED" =>
              Matched(last_call.rule.intent, Clean(last_call.input))

\* the context-adjusted confidence of the k-th intent of the pattern library
\* for the input of the call
ConfidenceOf(k) == last_call.scores[k]

\* the places in registration order of the intents that reach the highest
\* confidence
TopIntents ==
    {k \in DOMAIN PatternOrder :
        \A j \in DOMAIN PatternOrder : ConfidenceOf(j) <= ConfidenceOf(k)}

\* two or more intents share the highest confidence, which is above 0
Tie ==
    /\ Cardinality(TopIntents) >= 2
    /\ \A k \in TopIntents : ConfidenceOf(k) > 0

C15_ConfidenceInUnitInterval ==
    IsClassify =>
        /\ 0 <= last_call.result.confidence
        /\ last_call.result.confidence <= 100

\* the four values of IntentResult.method
Methods == {"rule_based", "llm_based", "fallback", "error_fallback"}

\* C16: the intent of every IntentResult returned by classify is a member of
\* the closed set of eleven enumerated intents, for every state, input and
\* collaborator response, and its method is one of rule_based, llm_based,
\* fallback, error_fallback.
C16_IntentInClosedSet ==
    IsClassify =>
        /\ last_call.result.intent \in Intents
        /\ last_call.result.method \in Methods

-----------------------------------------------------------------------------
(* Claims about what a call leaves alone (checked under SpecCall)           *)

\* the step is a call of classify
ClassifyStep == last_call'.op = "classify" /\ last_call' # last_call

ReadOnlyOfState ==
    {"classify", "add_to_history", "get_recent_history",
     "archive_current_email_session", "get_all_session_summaries",
     "get_session_by_id", "can_transition", "get_valid_intents"}

\* C18 (as stated): context.current_state is always one of the nine
\* ConversationState members and is written only by the state machine's
\* transition operation: classify, add_to_history, get_recent_history,
\* archive_current_email_session, reset_email_context,
\* get_all_session_summaries, get_session_by_id, can_transition and
\* get_valid_intents all leave current_state unchanged.
C18_OnlyTransitionWritesState ==
    [][/\ current_state' \in ConversationState
       /\ last_call'.op \in ReadOnlyOfState \cup {"reset_email_context"} =>
             current_state' = current_state]_vars

\* C18 (amended): current_state stays one of the nine members (callers of
\* update_context passing members); classify, add_to_history,
\* get_recent_history, archive_current_email_session,
\* get_all_session_summaries, get_session_by_id, can_transition and
\* get_valid_intents leave it unchanged, while reset_email_context writes it:
\* it sets WAITING_FOR_EMAIL.
C18_ResetWritesState ==
    [][/\ current_state' \in ConversationState
       /\ last_call'.op \in ReadOnlyOfState => current_state' = current_state
       /\ last_call'.op = "reset_email_context" =>
             current_state' = "WAITING_FOR_EMAIL"]_vars

\* an email session has been archived in mid-draft and the state is still
\* DRAFT_CREATED
C18_Witness ==
    /\ last_call.op = "archive_current_email_session"
    /\ Len(email_sessions) = 1
    /\ current_state = "DRAFT_CREATED"

-----------------------------------------------------------------------------
(* Claims about parameters and confidence deltas (checked under             *)
(* SpecClassify)                                                            *)

\* the parameters hold the outputs of the extractors for the input
CarriesExtractions(parameters, inp) ==
    /\ {"tone", "cloud", "filepath", "session_id", "refinement_instructions"}
          \subseteq DOMAIN parameters
    /\ parameters["tone"] = ExtractTone(Clean(inp))
    /\ parameters["cloud"] = ExtractCloudPreference(Clean(inp))
    /\ parameters["filepath"] = ExtractFilepath(Clean(inp))
    /\ parameters["session_id"] = ExtractSessionId(inp)
    /\ parameters["refinement_instructions"] = ExtractRefinementInstructions(inp)
    /\ Truthy(ExtractEmailContent(inp)) =>
          /\ "email_content" \in DOMAIN parameters
          /\ parameters["email_content"] = ExtractEmailContent(inp)

\* C19: for every input and state, the IntentResult finally returned by
\* classify carries the parameter extractors' outputs for that input (tone,
\* cloud, filepath, session_id, refinement_instructions, and email_content
\* when sniffed), whichever intent wins and whichever path (rule_based,
\* llm_based, fallback, error_fallback) produced the result.
C19_ExtractionsAlwaysAttached ==
    IsClassify => CarriesExtractions(last_call.result.parameters, last_call.input)

\* the delta the state registers for the k-th intent applies: its pattern matched
DeltaApplies(k) ==
    /\ current_state \in DOMAIN default_boost
    /\ PatternOrder[k] \in DOMAIN default_boost[current_state]
    /\ Matched(PatternOrder[k], Clean(last_call.input))

\* C20: in a state that registers a confidence delta for an intent whose
\* pattern matched, the scorer's confidence for that intent is
\* min(base + delta, 1.0), strictly above the un-adjusted base whenever
\* base < 1.0; e.g. in DRAFT_CREATED 'save it' yields SAVE_DRAFT with
\* confidence min(0.95 + 0.1, 1.0) = 1.0, above the 0.95 obtained in GREETING.
C20_DeltaRaisesConfidence ==
    IsClassify =>
        /\ \A k \in DOMAIN PatternOrder :
              DeltaApplies(k) =>
                 LET intent == PatternOrder[k]
                     base == base_confidence[intent]
                     delta == default_boost[current_state][intent]
                 IN  /\ last_call.scores[k] = Min(base + delta, 100)
                     /\ base < 100 => last_call.scores[k] > base
        /\ last_call.input = {"save it"} =>
              /\ last_call.rule.intent = "SAVE_DRAFT"
              /\ current_state = "DRAFT_CREATED" => last_call.rule.confidence = 100
              /\ current_state = "GREETING" => last_call.rule.confidence = 95

\* 'save it' in DRAFT_CREATED: SAVE_DRAFT at min(0.95 + 0.1, 1.0)
C20_Witness ==
    /\ IsClassify
    /\ current_state = "DRAFT_CREATED"
    /\ last_call.input = {"save it"}
    /\ DeltaApplies(4)
    /\ last_call.rule.intent = "SAVE_DRAFT"
    /\ last_call.rule.confidence = 100
    /\ last_call.result = last_call.rule

\* C21: when the rule scorer's confidence r satisfies 0.6 <= r < 0.8 (such as
\* 'yes' in GREETING, base 0.7, no override registered), classify returns the
\* rule scorer's result unchanged with method rule_based and does not invoke
\* the collaborator; classify invokes the collaborator at most twice per call
\* and not at all when r >= 0.6.
C21_MidConfidenceKeepsRule ==
    IsClassify =>
        /\ last_call.sent <= 2
        /\ last_call.rule.confidence >= 60 => last_call.sent = 0
        /\ (last_call.rule.confidence >= 60 /\ last_call.rule.confidence < 80) =>
              /\ last_call.result = last_call.rule
              /\ last_call.result.method = "rule_based"
              /\ ~last_call.raised

\* 'yes' in GREETING with a collaborator configured: CONTINUE_WORKFLOW at its
\* base 0.7 is returned and the collaborator is not asked
C21_Witness ==
    /\ IsClassify
    /\ current_state = "GREETING"
    /\ last_call.input = {"yes"}
    /\ last_call.processor = "llm"
    /\ last_call.rule.intent = "CONTINUE_WORKFLOW"
    /\ last_call.rule.confidence = 70
    /\ last_call.result = last_call.rule
    /\ last_call.sent = 0

\* a JSON object that carries an intent and a numeric confidence
WellFormed(response) ==
    /\ response.kind = "text"
    /\ response.body = "object"
    /\ response.conf_kind = "number"
    /\ response.intent # None

\* what _classify_with_llm makes of the first answer
FirstResult == ClassifyWithLlm(last_call.processor, last_call.responses[1]).result

\* C22: when a collaborator is configured and the rule scorer's confidence r
\* is below 0.6, classify returns the collaborator's result (method llm_based
\* for a well-formed JSON answer, with the collaborator's intent, confidence
\* and parameters) exactly when the collaborator's confidence is strictly
\* greater than r; otherwise the first answer is discarded and the later
\* steps decide: the rule result if r > 0.3, else the final-fallback answer
\* or the clarification request.
C22_CollaboratorOutranksRule ==
    (IsClassify /\ last_call.processor # "none" /\ last_call.rule.confidence < 60) =>
        /\ (last_call.result = FirstResult)
              <=> (FirstResult.confidence > last_call.rule.confidence)
        /\ (FirstResult.confidence > last_call.rule.confidence
              /\ WellFormed(last_call.responses[1])) =>
              /\ last_call.result.method = "llm_based"
              /\ last_call.result.intent = last_call.responses[1].intent
              /\ last_call.result.confidence = last_call.responses[1].confidence
              /\ last_call.result.parameters = last_call.responses[1].parameters
        /\ ~(FirstResult.confidence > last_call.rule.confidence) =>
              IF last_call.rule.confidence > 30
              THEN last_call.result = last_call.rule
              ELSE \/ /\ SecondAccepted
                      /\ last_call.result.reasoning[1] = "Fallback LLM classification: "
                   \/ /\ ~SecondAccepted
                      /\ last_call.result.method = "fallback"
                      /\ last_call.result.confidence = 90

\* ERROR_RECOVERY lifts GENERAL_HELP to 0.2 for whitespace; the collaborator
\* answers with confidence 0.3, just above it, and its answer is returned
C22_Witness ==
    /\ IsClassify
    /\ current_state = "ERROR_RECOVERY"
    /\ last_call.processor = "llm"
    /\ last_call.rule.confidence = 20
    /\ WellFormed(last_call.responses[1])
    /\ last_call.responses[1].confidence = 30
    /\ last_call.result.method = "llm_based"
    /\ last_call.result.confidence = 30
    /\ last_call.sent = 1

\* the collaborator's confidence equals the rule scorer's 0.2 and its answer
\* is discarded
C22_WitnessEqual ==
    /\ IsClassify
    /\ last_call.processor = "llm"
    /\ last_call.rule.confidence = 20
    /\ WellFormed(last_call.responses[1])
    /\ last_call.responses[1].confidence = 20
    /\ last_call.result # FirstResult

-----------------------------------------------------------------------------
(* conversational_agent.py: ConversationalEmailAgent                        *)
(*                                                                          *)
(* One process_user_input call is one step.  The collaborators behind the  *)
(* agent (the model that answers send_prompt, the file system) are free:   *)
(* each turn draws the answers to the classification prompts and what the  *)
(* processor's calls do.  The wording of a response is chosen at random   *)
(* from templates; a response is kept as its kind and its intent.          *)

\* free turns made after the scripted ones
MaxFreeTurns == 1

\* json.loads of the model's answer in extract_key_info gives a dict, or any
\* other JSON value: a list stands for those
InfoList == "info_list"

\* the emails, key information and drafts of a conversation, told apart by
\* the turn that brought them: the message of turn t loads email_t, the
\* model's answer to the extraction prompt for email_t is info_t, and the
\* draft the model writes in turn t is draft_t
EmailNames ==
    <<"email_1", "email_2", "email_3", "email_4", "email_5", "email_6",
      "email_7", "email_8">>
InfoNames ==
    <<"info_1", "info_2", "info_3", "info_4", "info_5", "info_6", "info_7",
      "info_8">>
DraftNames ==
    <<"draft_1", "draft_2", "draft_3", "draft_4", "draft_5", "draft_6",
      "draft_7", "draft_8">>

\* the number of the turn being processed
ThisTurn == turns.script + turns.free + 1

\* what load_text stores in this turn, and what draft_reply / refine return
TheEmail == EmailNames[ThisTurn]
TheDraft == DraftNames[ThisTurn]

\* the key information extract_key_info parses from the model's answer about
\* self.text
InfoOf(text) ==
    InfoNames[CHOOSE t \in DOMAIN EmailNames : EmailNames[t] = text]

\* the "parameters" of a JSON answer that are null, not an object
NullParams == [json |-> "null"]

\* what the model answers to a classification prompt
AgentResponses ==
    {Raises,
     JsonObject("none", "DRAFT_REPLY", "number", 85, ("tone" :> "formal"), "formal reply"),
     JsonObject("plain", "LOAD_EMAIL", "number", 45, EmptyParams, "load"),
     JsonObject("none", "BOGUS_INTENT", "number", 95, EmptyParams, "bogus"),
     JsonObject("none", "GENERAL_HELP", "number", 10, EmptyParams, "help"),
     JsonObject("none", None, "missing", 0, EmptyParams, None),
     JsonObject("none", "CLARIFICATION_NEEDED", "number", 90, NullParams, "unclear")}

\* what the processor's calls do in one turn: all succeed; load_text raises
\* (no such file); extract_key_info raises (the model is down, or its answer
\* is not JSON) or stores a JSON list; draft_reply and refine raise;
\* save_draft raises
Worlds ==
    {"ok", "load_raises", "extract_raises", "extract_list", "draft_raises",
     "save_raises"}

\* the messages of a free turn
AgentInputs ==
    {{"load report.pdf"}, {"load report.pdf", "and write back"},
     {"need to reply"}, {"make it more formal"}, {"save it"},
     {"key information"}, {"explain"}, {"yes"}, {"no"}, {"session history"},
     {"view session 2"}, {"something"}, {Blank}}

\* the messages of the scripted turns: an email is loaded, a reply drafted,
\* refined and saved
Script ==
    <<{"load report.pdf"}, {"need to reply"}, {"make it more formal"},
      {"save it"}, {"save it"}>>

\* _detect_draft_request_in_compound: load.*and.*write is the compound
\* pattern the vocabulary can spell
DetectDraftRequestInCompound(inp) ==
    "load report.pdf" \in inp /\ "and write back" \in inp

\* what a handler leaves behind: its success flag, the marks of its result
\* that process_user_input and the response generator read, and the fields of
\* the context and of the processor after it
NoEffect ==
    [success |-> TRUE, auto_extracted |-> FALSE, compound |-> FALSE,
     info |-> None,
     email_content |-> email_content, extracted_info |-> extracted_info,
     current_draft |-> current_draft, draft_history |-> draft_history,
     email_sessions |-> email_sessions,
     text |-> agent.text, key_info |-> agent.key_info,
     last_draft |-> agent.last_draft,
     currently_viewed_session |-> agent.currently_viewed_session,
     active_drafts |-> agent.active_drafts]

Failed(effect) == [effect EXCEPT !.success = FALSE]

\* Variant: the draft reaches the processor and context.current_draft but is
\* not appended to draft_history
Drafted_NotInHistory(effect) ==
    [effect EXCEPT !.last_draft = TheDraft, !.current_draft = TheDraft]

\* the fields after email_processor.draft_reply() or refine() returned a
\* draft and the handler stored it
Drafted(effect) ==
    [effect EXCEPT !.last_draft = TheDraft, !.current_draft = TheDraft,
                   !.draft_history = Append(@, TheDraft),
                   !.active_drafts = Append(@, TheDraft)]

\* ConversationalEmailAgent._handle_load_email
HandleLoadEmail(inp, world) ==
    LET archived == [NoEffect EXCEPT !.email_sessions = ArchivedSessions]
    IN  IF world = "load_raises" THEN Failed(archived)
        ELSE
        LET loaded == [archived EXCEPT !.text = TheEmail,
                                       !.email_content = TheEmail,
                                       !.active_drafts = <<>>]
        IN  IF world = "extract_raises" THEN Failed(loaded)
            ELSE
            LET key == IF world = "extract_list" THEN InfoList
                       ELSE InfoOf(TheEmail)
                extracted == [loaded EXCEPT !.key_info = key,
                                            !.extracted_info = key,
                                            !.info = key,
                                            !.auto_extracted = TRUE]
            IN  IF DetectDraftRequestInCompound(inp) /\ world # "draft_raises"
                THEN [Drafted(extracted) EXCEPT !.compound = TRUE]
                ELSE extracted

\* ConversationalEmailAgent._handle_extract_info
HandleExtractInfo(world) ==
    IF ~Truthy(agent.text) THEN Failed(NoEffect)
    ELSE IF Truthy(agent.key_info) THEN NoEffect
    ELSE IF world = "extract_raises" THEN Failed(NoEffect)
    ELSE LET key == IF world = "extract_list" THEN InfoList
                                ELSE InfoOf(agent.text)
         IN  [NoEffect EXCEPT !.key_info = key, !.extracted_info = key]

\* ConversationalEmailAgent._handle_draft_reply
HandleDraftReply(world) ==
    IF ~Truthy(agent.text) \/ world = "draft_raises" THEN Failed(NoEffect)
    ELSE Drafted(NoEffect)

\* ConversationalEmailAgent._handle_refine_draft; refine reads
\* self.key_info.get('summary', ''), which raises unless key_info is a dict
HandleRefineDraft(world) ==
    IF ~Truthy(agent.last_draft) THEN Failed(NoEffect)
    ELSE IF agent.key_info \in {None, InfoList} \/ world = "draft_raises"
    THEN Failed(NoEffect)
    ELSE Drafted(NoEffect)

\* ConversationalEmailAgent._handle_save_draft: the draft of the viewed
\* session if it has one, else the processor's last draft
HandleSaveDraft(world) ==
    LET viewed == IF agent.currently_viewed_session = None THEN {}
                  ELSE SessionById(agent.currently_viewed_session)
        from_viewed == \E session \in viewed : Truthy(session.current_draft)
        looked == IF from_viewed
                  THEN [NoEffect EXCEPT !.currently_viewed_session = None]
                  ELSE NoEffect
    IN  IF ~from_viewed /\ ~Truthy(agent.last_draft) THEN Failed(looked)
        ELSE IF world = "save_raises" THEN Failed(looked)
        ELSE looked

\* ConversationalEmailAgent._handle_continue_workflow
HandleContinueWorkflow(world) ==
    IF current_state = "EMAIL_LOADED"
    THEN IF Truthy(agent.key_info) THEN NoEffect
         ELSE IF world = "extract_raises" \/ ~Truthy(agent.text)
         THEN Failed(NoEffect)
         ELSE LET key == IF world = "extract_list" THEN InfoList
                                ELSE InfoOf(agent.text)
              IN  [NoEffect EXCEPT !.key_info = key, !.extracted_info = key]
    ELSE IF current_state = "INFO_EXTRACTED"
    THEN IF ~Truthy(agent.text) \/ world = "draft_raises" THEN Failed(NoEffect)
         ELSE Drafted(NoEffect)
    ELSE NoEffect

\* the session ids the extractor returns, as the context compares them
AsSessionId(session_id) ==
    CASE session_id = "email_2" -> SessionId(2)
      [] session_id = "current" -> CurrentId

\* ConversationalEmailAgent._handle_view_specific_session
HandleViewSpecificSession(parameters) ==
    IF "session_id" \notin DOMAIN parameters THEN Failed(NoEffect)
    ELSE IF parameters["session_id"] = None THEN Failed(NoEffect)
    ELSE IF SessionById(AsSessionId(parameters["session_id"])) = {}
    THEN Failed(NoEffect)
    ELSE [NoEffect EXCEPT !.currently_viewed_session =
                              AsSessionId(parameters["session_id"])]

\* ConversationalEmailAgent._execute_intent: the handler of the intent; an
\* intent without a handler fails
ExecuteIntent(intent, parameters, inp, world) ==
    CASE intent = "LOAD_EMAIL" -> HandleLoadEmail(inp, world)
      [] intent = "EXTRACT_INFO" -> HandleExtractInfo(world)
      [] intent = "DRAFT_REPLY" -> HandleDraftReply(world)
      [] intent = "REFINE_DRAFT" -> HandleRefineDraft(world)
      [] intent = "SAVE_DRAFT" -> HandleSaveDraft(world)
      [] intent \in {"GENERAL_HELP", "DECLINE_OFFER", "VIEW_SESSION_HISTORY"} -> NoEffect
      [] intent = "CONTINUE_WORKFLOW" -> HandleContinueWorkflow(world)
      [] intent = "VIEW_SPECIFIC_SESSION" -> HandleViewSpecificSession(parameters)
      [] OTHER -> Failed(NoEffect)

\* the intent process_user_input hands to transition_state: a load that
\* extracted the information counts as EXTRACT_INFO, one that also drafted
\* the reply as DRAFT_REPLY
TransitionIntent(intent, effect) ==
    IF intent = "LOAD_EMAIL" /\ effect.success /\ effect.auto_extracted
    THEN IF effect.compound THEN "DRAFT_REPLY" ELSE "EXTRACT_INFO"
    ELSE intent

\* context_info.update(intent_result.parameters) raises for parameters that
\* are no mapping
ClarificationRaises(result) == result.parameters = NullParams

\* generate_response raises: _format_load_email_response calls .get on the
\* extracted information, which a JSON list does not have
ResponseRaises(intent, effect) ==
    effect.success /\ intent = "LOAD_EMAIL" /\ effect.info = InfoList

\* the responses, by kind
ClarificationResponse == <<"clarification">>
UnexpectedErrorResponse == <<"unexpected error">>
GeneratedResponse(intent, success) ==
    IF success THEN <<"response", intent>> ELSE <<"error response", intent>>

\* the context and the agent before a call
Before ==
    [current_state |-> current_state, last_intent |-> last_intent,
     email_content |-> email_content, extracted_info |-> extracted_info,
     current_draft |-> current_draft, draft_history |-> draft_history,
     email_sessions |-> email_sessions,
     conversation_history |-> conversation_history, agent |-> agent]

\* the counters after a turn that ran a handler: lines 47, 88-91 and, when
\* the response generator raised after them, line 109
Counted(success, unexpected) ==
    [agent EXCEPT !.conversation_count = @ + 1,
                  !.successful_operations = IF success THEN @ + 1 ELSE @,
                  !.failed_operations =
                      (IF success THEN @ ELSE @ + 1) + (IF unexpected THEN 1 ELSE 0)]

\* Variant: the state the transition led to survives the unexpected error
StateAfter_KeepsTransition(intent, success, unexpected) ==
    NextState(current_state, intent, success)

\* current_state after a turn that ran a handler: transition_state, then
\* _handle_unexpected_error when the response generator raised
StateAfter(intent, success, unexpected) ==
    IF unexpected THEN "ERROR_RECOVERY"
    ELSE NextState(current_state, intent, success)

\* Variant: the reply to an unexpected error is returned but not recorded
Said_ErrorsUnrecorded(inp, response) ==
    conversation_history
        \o <<[role |-> "user", content |-> Text(inp)]>>
        \o (IF response = UnexpectedErrorResponse THEN <<>>
            ELSE <<[role |-> "assistant", content |-> response]>>)

\* conversation_history after the two add_to_history calls of a turn
Said(inp, response) ==
    conversation_history
        \o <<[role |-> "user", content |-> Text(inp)],
             [role |-> "assistant", content |-> response]>>

\* ConversationalEmailAgent.process_user_input(user_input): `rule` is what
\* the rule scorer makes of the input in the current state, the model answers
\* the classification prompts with r1 and r2 and the processor behaves as
\* `world` says
ProcessUserInput(inp, rule, r1, r2, world) ==
    \E intent_result \in {ClassifyOutcome(rule, inp, "llm", r1, r2).result} :
      IF intent_result.intent = "CLARIFICATION_NEEDED"
      THEN \* lines 58-69, and 105-110 when building the reply raises
           LET unexpected == ClarificationRaises(intent_result)
               response == IF unexpected THEN UnexpectedErrorResponse
                           ELSE ClarificationResponse
           IN  /\ conversation_history' = Said(inp, response)
               /\ current_state' = IF unexpected THEN "ERROR_RECOVERY"
                                   ELSE current_state
               /\ agent' = [agent EXCEPT
                              !.conversation_count = @ + 1,
                              !.failed_operations =
                                  IF unexpected THEN @ + 1 ELSE @]
               /\ last_call' = [op |-> "process_user_input", input |-> inp,
                                intent_result |-> intent_result,
                                path |-> IF unexpected THEN "unexpected"
                                         ELSE "clarification",
                                executed |-> FALSE, success |-> FALSE,
                                world |-> "ok",
                                transition |-> None,
                                auto_extracted |-> FALSE, compound |-> FALSE,
                                response |-> response, raised |-> FALSE,
                                before |-> Before]
               /\ UNCHANGED <<last_intent, email_content, extracted_info,
                              current_draft, draft_history, email_sessions,
                              workflow>>
      ELSE \* lines 71-103, and 105-110 when generate_response raises
           \E effect \in {ExecuteIntent(intent_result.intent,
                                        intent_result.parameters, inp, world)} :
           LET intent == TransitionIntent(intent_result.intent, effect)
               unexpected == ResponseRaises(intent_result.intent, effect)
               response == IF unexpected THEN UnexpectedErrorResponse
                           ELSE GeneratedResponse(intent_result.intent,
                                                  effect.success)
           IN  /\ Len(effect.email_sessions) <= MaxSessions
               /\ email_content' = effect.email_content
               /\ extracted_info' = effect.extracted_info
               /\ current_draft' = effect.current_draft
               /\ draft_history' = effect.draft_history
               /\ email_sessions' = effect.email_sessions
               /\ current_state' = StateAfter(intent, effect.success, unexpected)
               /\ last_intent' = NextLastIntent(current_state, last_intent,
                                                intent, effect.success)
               /\ conversation_history' = Said(inp, response)
               /\ agent' = [Counted(effect.success, unexpected) EXCEPT
                              !.text = effect.text,
                              !.key_info = effect.key_info,
                              !.last_draft = effect.last_draft,
                              !.currently_viewed_session =
                                  effect.currently_viewed_session,
                              !.active_drafts = effect.active_drafts]
               /\ last_call' = [op |-> "process_user_input", input |-> inp,
                                intent_result |-> intent_result,
                                path |-> IF unexpected THEN "unexpected"
                                         ELSE "normal",
                                executed |-> TRUE, success |-> effect.success,
                                world |-> IF effect = ExecuteIntent(
                                               intent_result.intent,
                                               intent_result.parameters, inp, "ok")
                                          THEN "ok" ELSE world,
                                transition |-> intent,
                                auto_extracted |-> effect.auto_extracted,
                                compound |-> effect.compound,
                                response |-> response, raised |-> FALSE,
                                before |-> Before]
               /\ UNCHANGED workflow

\* the answers a turn reads: none, the first, or both
AgentFirstResponses(rule, inp) ==
    IF ClassifyOutcome(rule, inp, "llm", Unused, Unused).sent >= 1
    THEN AgentResponses ELSE {Unused}
AgentSecondResponses(rule, inp, r1) ==
    IF ClassifyOutcome(rule, inp, "llm", r1, Unused).sent >= 2
    THEN AgentResponses ELSE {Unused}

\* the next turn of the script, every collaborator doing its work
ScriptTurn ==
    /\ turns.free = 0
    /\ turns.script < Len(Script)
    /\ \E rule \in {ClassifyWithRules(Script[turns.script + 1], current_state)} :
         ProcessUserInput(Script[turns.script + 1], rule, Unused, Unused, "ok")
    /\ turns' = [turns EXCEPT !.script = @ + 1]

\* a turn with any message and any behaviour of the collaborators
FreeTurn ==
    /\ turns.free < MaxFreeTurns
    /\ turns' = [turns EXCEPT !.free = @ + 1]
    /\ \E inp \in AgentInputs :
         \E rule \in {ClassifyWithRules(inp, current_state)} :
           \E r1 \in AgentFirstResponses(rule, inp) :
             \E r2 \in AgentSecondResponses(rule, inp, r1) :
               \E world \in Worlds :
                 ProcessUserInput(inp, rule, r1, r2, world)

\* Variant: the state reset_email_context sets is left in place
ResetConversation_StaysWaiting ==
    /\ last_call.op # "reset_conversation"
    /\ ArchiveFits
    /\ email_sessions' = ArchivedSessions
    /\ email_content' = None
    /\ extracted_info' = None
    /\ current_draft' = None
    /\ draft_history' = <<>>
    /\ current_state' = "WAITING_FOR_EMAIL"
    /\ agent' = [agent EXCEPT !.conversation_count = 0,
                              !.successful_operations = 0,
                              !.failed_operations = 0,
                              !.active_drafts = <<>>]
    /\ last_call' = [op |-> "reset_conversation", before |-> Before]
    /\ UNCHANGED <<last_intent, conversation_history, workflow, turns>>

\* ConversationalEmailAgent.reset_conversation(): reset_email_context, then
\* the state and the counters
ResetConversation ==
    /\ last_call.op # "reset_conversation"
    /\ ArchiveFits
    /\ email_sessions' = ArchivedSessions
    /\ email_content' = None
    /\ extracted_info' = None
    /\ current_draft' = None
    /\ draft_history' = <<>>
    /\ current_state' = "GREETING"
    /\ agent' = [agent EXCEPT !.conversation_count = 0,
                              !.successful_operations = 0,
                              !.failed_operations = 0,
                              !.active_drafts = <<>>]
    /\ last_call' = [op |-> "reset_conversation", before |-> Before]
    /\ UNCHANGED <<last_intent, conversation_history, workflow, turns>>

NextAgent ==
    \/ ScriptTurn
    \/ FreeTurn
    \/ ResetConversation

\* a freshly constructed agent
InitAgent == Init

SpecAgent == InitAgent /\ [][NextAgent]_vars

-----------------------------------------------------------------------------
(* Claims about the orchestrating agent (checked under SpecAgent)           *)

\* the last call was process_user_input
IsTurn == last_call.op = "process_user_input"

\* the last call was reset_conversation
IsReset == last_call.op = "reset_conversation"

\* the two entries a turn adds to the history it found
TurnEntries ==
    <<[role |-> "user", content |-> Text(last_call.input)],
      [role |-> "assistant", content |-> last_call.response]>>

\* C23: when classification yields CLARIFICATION_NEEDED, process_user_input
\* runs no intent handler and makes no state transition: current_state,
\* last_intent, the workflow artifacts and the success and failure counters
\* are unchanged, and only the user entry and the clarification reply are
\* appended to the history.
C23_ClarificationChangesNothing ==
    (IsTurn /\ last_call.intent_result.intent = "CLARIFICATION_NEEDED") =>
        /\ ~last_call.executed
        /\ last_call.transition = None
        /\ current_state = last_call.before.current_state
        /\ last_intent = last_call.before.last_intent
        /\ email_content = last_call.before.email_content
        /\ extracted_info = last_call.before.extracted_info
        /\ current_draft = last_call.before.current_draft
        /\ draft_history = last_call.before.draft_history
        /\ email_sessions = last_call.before.email_sessions
        /\ agent.successful_operations = last_call.before.agent.successful_operations
        /\ agent.failed_operations = last_call.before.agent.failed_operations
        /\ last_call.response = ClarificationResponse
        /\ conversation_history =
               last_call.before.conversation_history \o TurnEntries

C25_CountersPartitionTurns ==
    /\ IsTurn =>
        LET counted == agent.conversation_count
                          - last_call.before.agent.conversation_count
            succeeded == agent.successful_operations
                          - last_call.before.agent.successful_operations
            failed == agent.failed_operations
                          - last_call.before.agent.failed_operations
        IN  /\ counted = 1
            /\ <<succeeded, failed>> \in {<<0, 0>>, <<1, 0>>, <<0, 1>>}
            /\ (last_call.path = "normal" /\ last_call.success) => succeeded = 1
            /\ (last_call.path = "normal" /\ ~last_call.success) => failed = 1
            /\ last_call.path = "unexpected" => failed = 1
            /\ last_call.path = "clarification" => (succeeded = 0 /\ failed = 0)
            /\ (last_call.executed /\ ~last_call.success) =>
                   current_state = "ERROR_RECOVERY"
    /\ agent.successful_operations + agent.failed_operations
          <= agent.conversation_count

\* C26: after any turn in which the agent successfully loads an email
\* (LOAD_EMAIL with automatic extraction, no compound draft request and the
\* response generated), the conversation state is INFO_EXTRACTED, whatever
\* the state was before the turn.
C26_LoadLeadsToInfoExtracted ==
    (/\ IsTurn
     /\ last_call.path = "normal"
     /\ last_call.intent_result.intent = "LOAD_EMAIL"
     /\ last_call.success
     /\ last_call.auto_extracted
     /\ ~last_call.compound) =>
        current_state = "INFO_EXTRACTED"

\* C27: when a compound load-and-draft request succeeds in both loading the
\* email and creating the draft, the turn ends with the conversation in
\* DRAFT_CREATED, whatever the state was before the turn (GREETING included).
C27_CompoundLeadsToDraftCreated ==
    (/\ IsTurn
     /\ last_call.path = "normal"
     /\ last_call.intent_result.intent = "LOAD_EMAIL"
     /\ last_call.success
     /\ last_call.compound) =>
        current_state = "DRAFT_CREATED"

\* C28: if a step of process_user_input raises an unexpected exception, the
\* call does not raise: it returns an error response, records it in the
\* history, sets current_state to ERROR_RECOVERY and increments
\* failed_operations.
C28_UnexpectedErrorIsHandled ==
    (IsTurn /\ last_call.path = "unexpected") =>
        /\ ~last_call.raised
        /\ last_call.response = UnexpectedErrorResponse
        /\ conversation_history[Len(conversation_history)] =
               [role |-> "assistant", content |-> UnexpectedErrorResponse]
        /\ current_state = "ERROR_RECOVERY"
        /\ agent.failed_operations >= last_call.before.agent.failed_operations + 1

\* the response generator raises after a load that succeeded in GREETING and
\* was already taken to INFO_EXTRACTED
C28_Witness ==
    /\ IsTurn
    /\ last_call.path = "unexpected"
    /\ last_call.executed
    /\ last_call.success
    /\ last_call.before.current_state = "GREETING"
    /\ last_intent = "EXTRACT_INFO"
    /\ current_state = "ERROR_RECOVERY"

\* C29: after reset_conversation, from any prior state, the three counters
\* are 0, current_state is GREETING, email_content, extracted_info and
\* current_draft are None and draft_history is empty; an active email was
\* archived into email_sessions first, and the sessions archived before and
\* the conversation history are preserved.
C29_ResetConversation ==
    IsReset =>
        /\ agent.conversation_count = 0
        /\ agent.successful_operations = 0
        /\ agent.failed_operations = 0
        /\ current_state = "GREETING"
        /\ email_content = None
        /\ extracted_info = None
        /\ current_draft = None
        /\ draft_history = <<>>
        /\ IsPrefix(last_call.before.email_sessions, email_sessions)
        /\ IF Truthy(last_call.before.email_content)
           THEN /\ Len(email_sessions) = Len(last_call.before.email_sessions) + 1
                /\ LET session == email_sessions[Len(email_sessions)]
                   IN  /\ session.email_content = last_call.before.email_content
                       /\ session.extracted_info = last_call.before.extracted_info
                       /\ session.current_draft = last_call.before.current_draft
           ELSE email_sessions = last_call.before.email_sessions
        /\ conversation_history = last_call.before.conversation_history

\* a reset in DRAFT_REFINED, three turns counted, the email and its draft
\* going into the first session
C29_Witness ==
    /\ IsReset
    /\ last_call.before.current_state = "DRAFT_REFINED"
    /\ last_call.before.agent.conversation_count = 3
    /\ last_call.before.email_sessions = <<>>
    /\ Len(email_sessions) = 1
    /\ email_sessions[1].current_draft = DraftNames[3]
    /\ Len(conversation_history) = 6
    /\ current_state = "GREETING"

\* C30: when a new email supersedes an active one, the workflow fields of the
\* prior email are reset: after the new email is loaded (and no draft was
\* produced for it), context.current_draft is None.
C30_NewEmailResetsDraft ==
    (/\ IsTurn
     /\ last_call.intent_result.intent = "LOAD_EMAIL"
     /\ Truthy(last_call.before.email_content)
     /\ last_call.success
     /\ last_call.auto_extracted
     /\ ~last_call.compound) =>
        current_draft = None

-----------------------------------------------------------------------------
(* Claims about the session log, the transition table and the escalation    *)

GreetingIntents ==
    {"LOAD_EMAIL", "EXTRACT_INFO", "DRAFT_REPLY", "GENERAL_HELP",
     "CLARIFICATION_NEEDED", "VIEW_SESSION_HISTORY", "VIEW_SPECIFIC_SESSION"}
DraftCreatedIntents ==
    {"REFINE_DRAFT", "SAVE_DRAFT", "CONTINUE_WORKFLOW", "DECLINE_OFFER",
     "DRAFT_REPLY", "EXTRACT_INFO", "LOAD_EMAIL", "VIEW_SESSION_HISTORY",
     "VIEW_SPECIFIC_SESSION"}

\* C32: can_transition(I) holds exactly when I is in get_valid_intents(),
\* which is the set of intents tabled for the current state; in GREETING that
\* set is GreetingIntents and in DRAFT_CREATED it is DraftCreatedIntents.
\* (That neither call changes any state is C18's frame.)
C32_ValidIntents ==
    /\ last_call.op = "can_transition" =>
          last_call.returned =
              (last_call.intent \in DOMAIN transitions[current_state])
    /\ last_call.op = "get_valid_intents" =>
          /\ last_call.returned = DOMAIN transitions[current_state]
          /\ current_state = "GREETING" => last_call.returned = GreetingIntents
          /\ current_state = "DRAFT_CREATED" =>
                last_call.returned = DraftCreatedIntents

\* the intents that keep the conversation where it is
StayingIntents ==
    {"DECLINE_OFFER", "VIEW_SESSION_HISTORY", "VIEW_SPECIFIC_SESSION",
     "CLARIFICATION_NEEDED"}

\* C33: a successful transition on DECLINE_OFFER, VIEW_SESSION_HISTORY,
\* VIEW_SPECIFIC_SESSION or CLARIFICATION_NEEDED never changes current_state,
\* from any state: every table entry for these intents is a self-loop and an
\* untabled one is a no-op.
C33_StayingIntentsStay ==
    (IsTransition /\ last_call.success /\ last_call.intent \in StayingIntents) =>
        /\ current_state = last_call.from_state
        /\ last_call.returned = last_call.from_state
        /\ last_call.intent \in DOMAIN transitions[last_call.from_state] =>
              transitions[last_call.from_state][last_call.intent]
                  = last_call.from_state

\* the offer is declined in DRAFT_CREATED, after LOAD_EMAIL and DRAFT_REPLY
C33_Witness ==
    /\ IsTransition /\ last_call.success
    /\ last_call.intent = "DECLINE_OFFER"
    /\ last_call.from_state = "DRAFT_CREATED"
    /\ current_state = "DRAFT_CREATED"
    /\ last_intent = "DECLINE_OFFER"

\* C34: the context adjustments agree with the transition table: in every
\* state with registered adjustments the intents boosted are tabled, and an
\* intent forced by an exact 'yes' / 'no' phrase (CONTINUE_WORKFLOW,
\* DECLINE_OFFER at 0.95) is a tabled transition of the state it is forced in.
C34_AdjustmentsAreTabled ==
    /\ \A s \in DOMAIN default_boost :
          DOMAIN default_boost[s] \subseteq DOMAIN transitions[s]
    /\ (/\ IsClassify
        /\ current_state \in DOMAIN default_boost
        /\ \/ /\ InputIsExactly(AffirmativePhrases)
              /\ last_call.result.intent = "CONTINUE_WORKFLOW"
           \/ /\ InputIsExactly(NegativePhrases)
              /\ last_call.result.intent = "DECLINE_OFFER") =>
          last_call.result.intent \in DOMAIN transitions[current_state]

\* step 4 of classify was reached: the collaborator was asked a second time
LastResortAsked == IsClassify /\ last_call.sent = 2

\* C35: with a collaborator that gives the same answer to the same prompt,
\* the last-resort second invocation is never accepted: when it is made the
\* first answer's confidence was <= the rule confidence <= 0.3, so the
\* repeated answer fails the > 0.4 bar and classify ends in the generic
\* fallback; a result whose reasoning is prefixed 'Fallback' needs a
\* collaborator that answered differently the second time.
C35_RepeatedAnswerIsRejected ==
    /\ (LastResortAsked /\ AnsweredDeterministically) =>
          /\ ClassifyWithLlm(last_call.processor,
                             last_call.responses[1]).result.confidence
                 <= last_call.rule.confidence
          /\ last_call.rule.confidence <= 30
          /\ ~SecondAccepted
          /\ last_call.result.method = "fallback"
          /\ last_call.result.intent = "CLARIFICATION_NEEDED"
    /\ (IsClassify /\ last_call.result.reasoning # <<>>
          /\ Head(last_call.result.reasoning) = "Fallback LLM classification: ") =>
          /\ last_call.sent = 2
          /\ last_call.responses[1] # last_call.responses[2]

\* the collaborator says GENERAL_HELP at 0.15 twice about an input the rule
\* scorer rates 0.2
C35_Witness ==
    /\ LastResortAsked
    /\ last_call.responses[1] = last_call.responses[2]
    /\ last_call.responses[1] =
          JsonObject("none", "GENERAL_HELP", "number", 15, EmptyParams, "help")
    /\ last_call.rule.confidence = 20
    /\ last_call.result.method = "fallback"

-----------------------------------------------------------------------------
(* Claims about the workflow artifacts over a conversation (SpecAgent)      *)

\* the states of the draft stage
DraftStates == {"DRAFT_CREATED", "DRAFT_REFINED", "READY_TO_SAVE"}

\* C36: over any sequence of process_user_input and reset_conversation calls
\* on a fresh agent, whenever the conversation state is DRAFT_CREATED,
\* DRAFT_REFINED or READY_TO_SAVE the context holds a draft: current_draft is
\* set and draft_history is not empty.
C36_DraftStatesHoldDraft ==
    current_state \in DraftStates =>
        /\ Truthy(current_draft)
        /\ draft_history # <<>>

\* the refine turn of the script: the conversation moves from DRAFT_CREATED
\* to DRAFT_REFINED with the refined draft as the second draft of the history
C36_Witness ==
    /\ IsTurn
    /\ last_call.before.current_state = "DRAFT_CREATED"
    /\ current_state = "DRAFT_REFINED"
    /\ current_draft = DraftNames[ThisTurn - 1]
    /\ Len(draft_history) = 2

\* C37: no email is archived twice: the entries of email_sessions are
\* distinct loaded emails, and a LOAD_EMAIL turn whose handler fails
\* (load_text or the extraction raises) leaves email_sessions unchanged.
C37_NoEmailArchivedTwice ==
    /\ \A i, j \in DOMAIN email_sessions :
          i # j => email_sessions[i].email_content # email_sessions[j].email_content
    /\ (/\ IsTurn
        /\ last_call.executed
        /\ last_call.intent_result.intent = "LOAD_EMAIL"
        /\ ~last_call.success) =>
          email_sessions = last_call.before.email_sessions

\* C38: whenever context.extracted_info is set it was extracted from the
\* email in context.email_content, and a successful EXTRACT_INFO turn on a
\* loaded email presents the key information of that email, also after a
\* LOAD_EMAIL whose extraction step failed.  (Key information that is not a
\* dict carries no mark of its email and is left out.)
C38_InfoBelongsToEmail ==
    /\ extracted_info \notin {None, InfoList} =>
          /\ Truthy(email_content)
          /\ extracted_info = InfoOf(email_content)
    /\ (/\ IsTurn
        /\ last_call.path = "normal"
        /\ last_call.intent_result.intent = "EXTRACT_INFO"
        /\ last_call.success
        /\ Truthy(email_content)
        /\ agent.key_info \notin {None, InfoList}) =>
          agent.key_info = InfoOf(email_content)

\* C39: the drafts of an archived session are exactly the drafts made (by
\* draft or refine) while its email was the active one, in the order they
\* were made, and the draft_count of the 'current' summary counts the drafts
\* made for the active email.
C39_SessionDraftsAreItsOwn ==
    /\ ((IsTurn \/ IsReset)
          /\ Len(email_sessions) = Len(last_call.before.email_sessions) + 1) =>
          email_sessions[Len(email_sessions)].drafts
              = last_call.before.agent.active_drafts
    /\ Truthy(email_content) =>
          AllSessionSummaries[Len(AllSessionSummaries)].draft_count
              = Len(agent.active_drafts)

\* C40: after reset_conversation and until a LOAD_EMAIL succeeds (the context
\* holds no email), an EXTRACT_INFO, DRAFT_REPLY, REFINE_DRAFT or SAVE_DRAFT
\* request fails and routes to ERROR_RECOVERY instead of succeeding on the
\* email or draft from before the reset.  (Saving the draft of an archived
\* session that is being viewed is left out.)
C40_NothingToWorkOnAfterReset ==
    (/\ IsTurn
     /\ last_call.executed
     /\ last_call.intent_result.intent \in
           {"EXTRACT_INFO", "DRAFT_REPLY", "REFINE_DRAFT", "SAVE_DRAFT"}
     /\ ~Truthy(last_call.before.email_content)
     /\ last_call.before.agent.currently_viewed_session = None) =>
        /\ ~last_call.success
        /\ current_state = "ERROR_RECOVERY"

====
